---- MODULE Spec2Model ----
(***************************************************************************)
(* Staked-resolution contracts of the repository, as state machines.       *)
(*                                                                         *)
(*   PM   PredictionMarket          smart_contract_1740380441006.rs        *)
(*   PMC  PredictiveMarketContract  smart_contract_1740366471937.rs        *)
(*   CW   CrowdWisdom               smart_contract_1740366363939.rs        *)
(*   DA   DecentralizedAuction      smart_contract_1740272477731.rs        *)
(*   TB   TaskBoard                 smart_contract_1740286874249.rs        *)
(*   VT   Voting                    smart_contract_1740301268424.rs        *)
(*   VC   VotingContract            smart_contract_1740330087233.rs        *)
(*   DTM  DecentralizedTaskManagement  src/smart_contract_1740210829611.rs *)
(*   SM   SubscriptionManager       smart_contract_1740369633493.rs        *)
(*   DOP  DecentralizedOpinionPolling  smart_contract_1740387626622.rs     *)
(*   RO   ReputationOracle          smart_contract_1740344480472.rs        *)
(*                                                                         *)
(* The contracts are independent programs.  `deployed` names the one a     *)
(* behaviour runs; the state of the others stays at its initial value.     *)
(*                                                                         *)
(* Conventions.                                                            *)
(*  - One action per entry point; the action is the whole call.            *)
(*  - `ret` is what the last call returned: the entry point and the       *)
(*    result ("Ok", an error name, or "panic").                            *)
(*  - A call that returns Err keeps the storage writes the code made       *)
(*    before the return: the code is modelled as written, and the          *)
(*    transaction layer of the host is outside it.  A panic traps and      *)
(*    the call leaves no write behind.                                     *)
(*  - i128 amounts are integers of reduced width: I128_MAX stands for     *)
(*    i128::MAX.                                                           *)
(*  - `calls` counts the calls made so far; a behaviour makes at most      *)
(*    MaxCalls of them.                                                    *)
(***************************************************************************)
EXTENDS Integers, Sequences, FiniteSets, TLC

VARIABLES deployed, now, calls, ret, pm, pm_log, pmc, pmc_log, cw, da,
          tb, vt, vc, vc_log, dtm, sm, da_log, dop,
          ro, tb_log, dtm_log

\* ------------------------------------------------------------------ bounds
\* MaxCalls: the number of calls in a behaviour.  MaxTime: the last ledger
\* timestamp.  MaxLiquidity: the amount of an add_liquidity or
\* remove_liquidity call.  MaxTiers: the largest TierCount add_tier is
\* called at.  U32_MAX stands for u32::MAX.
MaxCalls == 5
MaxTime == 1
MaxLiquidity == 9
I128_MAX == 63
MaxTiers == 2
U32_MAX == 7

Accounts == {"a1", "a2"}
Voters == {"a1", "a2", "a3"}
Outcomes == {"o1", "o2", "o3"}
OutcomeLists == {<<"o1", "o2">>}
Timestamps == {1}
StakeAmounts == {1}
LiquidityAmounts == {MaxLiquidity}
LiquiditySeeds == {<<1, 1>>, <<I128_MAX>>}
VoteAmounts == {0, 1, 2}
VoteOptions == {0, 1}
OracleAnswers == {0, 1, 2}
Deadlines == {0, 1}
PollIds == {1, 2}
BidAmounts == {0, 1, 2}
Lamports == {0, 1, 2}
TaskIds == {0, 1}
Bounties == {0, 1}
Contributions == {0, 1}
ProposalNames == {"p1", "p2"}
VotingOptionLists == {<<"o1", "o2">>, <<"o2", "o1">>, <<"o1">>}
Balances == {0, 1}
TaskStatus == {"Open", "InProgress", "Completed", "Cancelled"}

I128_MIN == -I128_MAX - 1
InI128(x) == I128_MIN <= x /\ x <= I128_MAX

\* -------------------------------------------------------------- arithmetic
\* An absent key or value.
None == "None"

\* Option<i128>: Some(v) is <<v>>, Option::None is <<>>.
Some(v) == <<v>>
Overflowed == <<>>

\* i128::checked_add / checked_sub: Option::None on overflow.
checked_add(a, b) == IF InI128(a + b) THEN Some(a + b) ELSE Overflowed
checked_sub(a, b) == IF InI128(a - b) THEN Some(a - b) ELSE Overflowed

\* Rust integer division truncates toward zero.
TruncDiv(a, b) ==
    IF (a >= 0) = (b > 0) THEN (IF a >= 0 THEN a \div b ELSE (-a) \div (-b))
    ELSE -((IF a >= 0 THEN a ELSE -a) \div (IF b > 0 THEN b ELSE -b))

\* i128::checked_div: Option::None on a zero divisor or on MIN / -1.
checked_div(a, b) ==
    IF b = 0 \/ (a = I128_MIN /\ b = -1) THEN Overflowed ELSE Some(TruncDiv(a, b))

\* a * b in i128 without overflow checks: two's complement wrap-around.
wrapping_mul(a, b) ==
    LET modulus == 2 * (I128_MAX + 1)
    IN  ((a * b - I128_MIN) % modulus) + I128_MIN

SeqSet(s) == {s[i] : i \in 1..Len(s)}

RECURSIVE SumOver(_, _)
SumOver(S, f) ==
    IF S = {} THEN 0
    ELSE LET x == CHOOSE y \in S : TRUE IN f[x] + SumOver(S \ {x}, f)

\* ========================================================================
\* PredictionMarket  (PM)
\* ========================================================================
\* pm: the contract's storage.  A stake key that is absent reads as 0
\* (get_stake), and so does a pool key (get_outcome_pool): both maps hold 0
\* for an absent key.  resolved_outcome is None until the first resolve.
\* pm_log: the history of the calls: claims[a, o] counts the successful
\* claim calls, paid sums the winnings they transferred ("TRANSFER"), staked
\* sums the amounts of the successful deposit calls, reinit tells that init
\* was called again after construction.

AccountOutcome == Accounts \X Outcomes

get_stake(account, outcome) == pm.stake[<<account, outcome>>]

get_outcome_pool(outcome) == pm.pool[outcome]

\* init: every instance key is overwritten, the pool of every listed outcome
\* is set to 0; stakes, pools of outcomes not listed and resolved_outcome are
\* left as they are.  Nothing guards a second call.
PM_init_call(admin, outcomes, resolution_timestamp) ==
    [pm EXCEPT !.admin = admin,
               !.outcomes = outcomes,
               !.resolution_timestamp = resolution_timestamp,
               !.resolved = FALSE,
               !.pool = [o \in Outcomes |->
                            IF o \in SeqSet(outcomes) THEN 0 ELSE pm.pool[o]],
               !.total_liquidity = 0]

\* A deposit that records the stake and leaves the pool alone, to test
\* C1_StakesTrackPools.
PM_deposit_call_no_pool(from, outcome, amount) ==
    IF outcome \notin SeqSet(pm.outcomes)
        THEN [pm |-> pm, res |-> "InvalidOutcome"]
    ELSE [pm |-> [pm EXCEPT !.stake[<<from, outcome>>] = @ + amount],
          res |-> "Ok"]

\* A deposit that stores the new amount in place of the sum, to test
\* C21_StakeAccumulates.
PM_deposit_call_overwrite(from, outcome, amount) ==
    LET pool == checked_add(get_outcome_pool(outcome), amount)
        staked == [pm EXCEPT !.stake[<<from, outcome>>] = amount]
    IN  IF outcome \notin SeqSet(pm.outcomes)
            THEN [pm |-> pm, res |-> "InvalidOutcome"]
        ELSE IF pool = Overflowed
            THEN [pm |-> staked, res |-> "Overflow"]
        ELSE [pm |-> [staked EXCEPT !.pool[outcome] = pool[1]], res |-> "Ok"]

PM_deposit_call(from, outcome, amount) ==
    LET stake == checked_add(get_stake(from, outcome), amount)
        pool == checked_add(get_outcome_pool(outcome), amount)
        staked == [pm EXCEPT !.stake[<<from, outcome>>] = stake[1]]
    IN  IF outcome \notin SeqSet(pm.outcomes)
            THEN [pm |-> pm, res |-> "InvalidOutcome"]
        ELSE IF stake = Overflowed
            THEN [pm |-> pm, res |-> "Overflow"]
        ELSE IF pool = Overflowed
            THEN [pm |-> staked, res |-> "Overflow"]
        ELSE [pm |-> [staked EXCEPT !.pool[outcome] = pool[1]], res |-> "Ok"]

PM_withdraw_call(to, outcome, amount) ==
    LET old == get_stake(to, outcome)
        stake == checked_sub(old, amount)
        pool == checked_sub(get_outcome_pool(outcome), amount)
        unstaked == [pm EXCEPT !.stake[<<to, outcome>>] = stake[1]]
    IN  IF outcome \notin SeqSet(pm.outcomes)
            THEN [pm |-> pm, res |-> "InvalidOutcome"]
        ELSE IF old < amount
            THEN [pm |-> pm, res |-> "InsufficientStake"]
        ELSE IF stake = Overflowed
            THEN [pm |-> pm, res |-> "Underflow"]
        ELSE IF pool = Overflowed
            THEN [pm |-> unstaked, res |-> "Underflow"]
        ELSE [pm |-> [unstaked EXCEPT !.pool[outcome] = pool[1]], res |-> "Ok"]

\* A resolve without the maturity check, to test C7_EarlyResolveRejected.
PM_resolve_call_any_time(by, resolved_outcome) ==
    IF by # pm.admin
        THEN [pm |-> pm, res |-> "Unauthorized"]
    ELSE IF resolved_outcome \notin SeqSet(pm.outcomes)
        THEN [pm |-> pm, res |-> "InvalidOutcome"]
    ELSE IF pm.resolved
        THEN [pm |-> pm, res |-> "MarketAlreadyResolved"]
    ELSE [pm |-> [pm EXCEPT !.resolved_outcome = resolved_outcome,
                            !.resolved = TRUE],
          res |-> "Ok"]

\* A resolve without the admin check, to test C8_OnlyAdminResolves.
PM_resolve_call_by_anyone(by, resolved_outcome) ==
    IF now < pm.resolution_timestamp
        THEN [pm |-> pm, res |-> "MarketNotMature"]
    ELSE IF resolved_outcome \notin SeqSet(pm.outcomes)
        THEN [pm |-> pm, res |-> "InvalidOutcome"]
    ELSE IF pm.resolved
        THEN [pm |-> pm, res |-> "MarketAlreadyResolved"]
    ELSE [pm |-> [pm EXCEPT !.resolved_outcome = resolved_outcome,
                            !.resolved = TRUE],
          res |-> "Ok"]

PM_resolve_call(by, resolved_outcome) ==
    IF by # pm.admin
        THEN [pm |-> pm, res |-> "Unauthorized"]
    ELSE IF now < pm.resolution_timestamp
        THEN [pm |-> pm, res |-> "MarketNotMature"]
    ELSE IF resolved_outcome \notin SeqSet(pm.outcomes)
        THEN [pm |-> pm, res |-> "InvalidOutcome"]
    ELSE IF pm.resolved
        THEN [pm |-> pm, res |-> "MarketAlreadyResolved"]
    ELSE [pm |-> [pm EXCEPT !.resolved_outcome = resolved_outcome,
                            !.resolved = TRUE],
          res |-> "Ok"]

\* A claim that does not compare the outcome with the resolved one, to test
\* C16_ClaimOnlyForWinners.
PM_claim_call_any_outcome(to, outcome) ==
    LET stake == get_stake(to, outcome)
        pool == get_outcome_pool(outcome)
        product == stake * pm.total_liquidity
    IN  IF ~pm.resolved
            THEN [pm |-> pm, res |-> "MarketNotResolved", winnings |-> 0]
        ELSE IF stake = 0
            THEN [pm |-> pm, res |-> "NoStake", winnings |-> 0]
        ELSE IF pool = 0 \/ ~InI128(product) \/ checked_div(product, pool) = Overflowed
            THEN [pm |-> pm, res |-> "panic", winnings |-> 0]
        ELSE [pm |-> [pm EXCEPT !.stake[<<to, outcome>>] = 0],
              res |-> "Ok",
              winnings |-> TruncDiv(product, pool)]

\* winnings = stake * total_liquidity / pool in plain i128 arithmetic: a zero
\* pool panics, and so does a product outside i128 (overflow checks on).
PM_claim_call(to, outcome) ==
    LET stake == get_stake(to, outcome)
        pool == get_outcome_pool(outcome)
        product == stake * pm.total_liquidity
    IN  IF ~pm.resolved
            THEN [pm |-> pm, res |-> "MarketNotResolved", winnings |-> 0]
        ELSE IF outcome # pm.resolved_outcome
            THEN [pm |-> pm, res |-> "NotWinningOutcome", winnings |-> 0]
        ELSE IF stake = 0
            THEN [pm |-> pm, res |-> "NoStake", winnings |-> 0]
        ELSE IF pool = 0 \/ ~InI128(product) \/ checked_div(product, pool) = Overflowed
            THEN [pm |-> pm, res |-> "panic", winnings |-> 0]
        ELSE [pm |-> [pm EXCEPT !.stake[<<to, outcome>>] = 0],
              res |-> "Ok",
              winnings |-> TruncDiv(product, pool)]

\* claim as built without overflow checks: the product wraps around in i128
\* and the call goes on with the wrapped value; a zero pool and a quotient
\* outside i128 panic in every build.
PM_claim_wrapping_call(to, outcome) ==
    LET stake == get_stake(to, outcome)
        pool == get_outcome_pool(outcome)
        product == wrapping_mul(stake, pm.total_liquidity)
    IN  IF ~pm.resolved
            THEN [pm |-> pm, res |-> "MarketNotResolved", winnings |-> 0]
        ELSE IF outcome # pm.resolved_outcome
            THEN [pm |-> pm, res |-> "NotWinningOutcome", winnings |-> 0]
        ELSE IF stake = 0
            THEN [pm |-> pm, res |-> "NoStake", winnings |-> 0]
        ELSE IF pool = 0 \/ checked_div(product, pool) = Overflowed
            THEN [pm |-> pm, res |-> "panic", winnings |-> 0]
        ELSE [pm |-> [pm EXCEPT !.stake[<<to, outcome>>] = 0],
              res |-> "Ok",
              winnings |-> TruncDiv(product, pool)]

\* The pools of outcomes[1..k] with liquidity_per_outcome added (delta > 0
\* adds, delta < 0 removes), in the order of the loop.
RECURSIVE PoolsAfter(_, _, _, _)
PoolsAfter(pool, outcomes, k, delta) ==
    IF k = 0 THEN pool
    ELSE LET prev == PoolsAfter(pool, outcomes, k - 1, delta)
         IN  [prev EXCEPT ![outcomes[k]] = prev[outcomes[k]] + delta]

\* The first position of the loop whose checked_add overflows (0 if none).
RECURSIVE FirstOverflow(_, _, _, _)
FirstOverflow(pool, outcomes, k, delta) ==
    IF k > Len(outcomes) THEN 0
    ELSE IF ~InI128(PoolsAfter(pool, outcomes, k - 1, delta)[outcomes[k]] + delta)
        THEN k
    ELSE FirstOverflow(pool, outcomes, k + 1, delta)

PM_add_liquidity_call(from, amount) ==
    LET num_outcomes == Len(pm.outcomes)
        liquidity_per_outcome == checked_div(amount, num_outcomes)[1]
        stop == FirstOverflow(pm.pool, pm.outcomes, 1, liquidity_per_outcome)
        total_liquidity == checked_add(pm.total_liquidity, amount)
        pooled == [pm EXCEPT !.pool = PoolsAfter(pm.pool, pm.outcomes,
                                                 num_outcomes, liquidity_per_outcome)]
    IN  IF num_outcomes = 0
            THEN [pm |-> pm, res |-> "NoOutcomes"]
        ELSE IF stop # 0
            THEN [pm |-> [pm EXCEPT !.pool = PoolsAfter(pm.pool, pm.outcomes,
                                                  stop - 1, liquidity_per_outcome)],
                  res |-> "Overflow"]
        ELSE IF total_liquidity = Overflowed
            THEN [pm |-> pooled, res |-> "Overflow"]
        ELSE [pm |-> [pooled EXCEPT !.total_liquidity = total_liquidity[1]],
              res |-> "Ok"]

\* The first position of the remove loop whose pool is below the share, or
\* whose checked_sub underflows (0 if none).
RECURSIVE FirstShort(_, _, _, _)
FirstShort(pool, outcomes, k, share) ==
    IF k > Len(outcomes) THEN 0
    ELSE LET cur == PoolsAfter(pool, outcomes, k - 1, -share)[outcomes[k]]
         IN  IF cur < share \/ ~InI128(cur - share) THEN k
             ELSE FirstShort(pool, outcomes, k + 1, share)

PM_remove_liquidity_call(to, amount) ==
    LET num_outcomes == Len(pm.outcomes)
        total_liquidity == checked_sub(pm.total_liquidity, amount)
        liquidity_per_outcome == checked_div(amount, num_outcomes)[1]
        debited == [pm EXCEPT !.total_liquidity = total_liquidity[1]]
        stop == FirstShort(pm.pool, pm.outcomes, 1, liquidity_per_outcome)
        cur == PoolsAfter(pm.pool, pm.outcomes, stop - 1,
                          -liquidity_per_outcome)[pm.outcomes[stop]]
    IN  IF num_outcomes = 0
            THEN [pm |-> pm, res |-> "NoOutcomes"]
        ELSE IF pm.total_liquidity < amount
            THEN [pm |-> pm, res |-> "InsufficientLiquidity"]
        ELSE IF total_liquidity = Overflowed
            THEN [pm |-> pm, res |-> "Underflow"]
        ELSE IF stop # 0
            THEN [pm |-> [debited EXCEPT !.pool = PoolsAfter(pm.pool, pm.outcomes,
                                             stop - 1, -liquidity_per_outcome)],
                  res |-> IF cur < liquidity_per_outcome
                             THEN "InsufficientPoolLiquidity" ELSE "Underflow"]
        ELSE [pm |-> [debited EXCEPT !.pool = PoolsAfter(pm.pool, pm.outcomes,
                                         num_outcomes, -liquidity_per_outcome)],
              res |-> "Ok"]



\* ========================================================================
\* PredictiveMarketContract  (PMC)
\* ========================================================================
\* pmc: admin, poll_count, polls (poll id -> Poll, present for the ids
\* created), votes ((poll id, voter) -> Vote, present for the keys stored).
\* pmc_log: per poll, the amounts the token contract was asked to move:
\* staked into the contract by vote, paid out of it by distribute_rewards.

RestrictTo(f, S) == [x \in S |-> f[x]]

Put(f, k, v) == [x \in DOMAIN f \cup {k} |-> IF x = k THEN v ELSE f[x]]

\* An extract_vote_key that takes every vote key for the poll's, to test
\* C22_ResolveTouchesOnlyItsPoll.
VoteKeys_of_any_poll(votes, poll_id) == DOMAIN votes

\* The vote keys of a poll: the keys extract_vote_key parses to that poll id.
VoteKeys(votes, poll_id) == {k \in DOMAIN votes : k[1] = poll_id}

\* A refund_stakes that returns nothing, to test C10_NoWinnerRefund.
refund_nothing(votes, poll_id) == [v \in Voters |-> 0]

\* The no-winner branch of distribute_rewards: every vote of the poll is
\* transferred back to its voter in full.
refund_stakes(votes, poll_id) ==
    [v \in Voters |->
        IF <<poll_id, v>> \in VoteKeys(votes, poll_id)
            THEN votes[<<poll_id, v>>].amount ELSE 0]

\* distribute_rewards: the transfers it makes (voter -> amount, 0 for none)
\* and the votes left.  total_stake and winning_stake are plain i128 sums and
\* the reward a plain i128 product: outside i128 they panic.
distribute_rewards(votes, poll_id, winning_option) ==
    LET keys == VoteKeys(votes, poll_id)
        amount == [k \in keys |-> votes[k].amount]
        winners == {k \in keys : votes[k].option = winning_option}
        total_stake == SumOver(keys, amount)
        winning_stake == SumOver(winners, amount)
        left == RestrictTo(votes, DOMAIN votes \ keys)
        refund == refund_stakes(votes, poll_id)
        reward_amount(k) == TruncDiv(amount[k] * total_stake, winning_stake)
        reward == [v \in Voters |->
                      IF <<poll_id, v>> \in winners /\ reward_amount(<<poll_id, v>>) > 0
                          THEN reward_amount(<<poll_id, v>>) ELSE 0]
    IN  IF ~InI128(total_stake) \/ ~InI128(winning_stake)
            THEN [panic |-> TRUE, votes |-> votes, transfers |-> [v \in Voters |-> 0],
                  total_stake |-> 0, winning_stake |-> 0]
        ELSE IF winning_stake = 0
            THEN [panic |-> FALSE, votes |-> left, transfers |-> refund,
                  total_stake |-> total_stake, winning_stake |-> 0]
        ELSE IF \E k \in winners : ~InI128(amount[k] * total_stake)
            THEN [panic |-> TRUE, votes |-> votes, transfers |-> [v \in Voters |-> 0],
                  total_stake |-> total_stake, winning_stake |-> winning_stake]
        ELSE [panic |-> FALSE, votes |-> left, transfers |-> reward,
              total_stake |-> total_stake, winning_stake |-> winning_stake]

\* create_poll: admin.require_auth() traps a call the admin did not sign.
PMC_create_poll_call(caller, deadline) ==
    LET poll_id == pmc.poll_count + 1
    IN  IF caller # pmc.admin
            THEN [pmc |-> pmc, res |-> "panic"]
        ELSE [pmc |-> [pmc EXCEPT !.polls = Put(@, poll_id,
                                     [deadline |-> deadline, resolved |-> FALSE,
                                      winning_option |-> 0]),
                                  !.poll_count = poll_id],
              res |-> "Ok"]

\* A vote that looks neither at resolved nor at the deadline, to test
\* C34_VoteAndResolveExclusive.
PMC_vote_call_any_time(voter, poll_id, option, amount, token_ok) ==
    IF amount <= 0 \/ poll_id \notin DOMAIN pmc.polls
          \/ <<poll_id, voter>> \in DOMAIN pmc.votes \/ ~token_ok
        THEN [pmc |-> pmc, res |-> "ZeroAmount"]
    ELSE [pmc |-> [pmc EXCEPT !.votes = Put(@, <<poll_id, voter>>,
                                  [option |-> option, amount |-> amount])],
          res |-> "Ok"]

\* vote: every rejection is panic_with_error!, named here by its error.
\* token_ok: the token contract carries out the transfer it is asked for.
PMC_vote_call(voter, poll_id, option, amount, token_ok) ==
    IF amount <= 0
        THEN [pmc |-> pmc, res |-> "ZeroAmount"]
    ELSE IF poll_id \notin DOMAIN pmc.polls
        THEN [pmc |-> pmc, res |-> "PollNotFound"]
    ELSE IF pmc.polls[poll_id].resolved
        THEN [pmc |-> pmc, res |-> "PollNotActive"]
    ELSE IF now > pmc.polls[poll_id].deadline
        THEN [pmc |-> pmc, res |-> "DeadlinePassed"]
    ELSE IF <<poll_id, voter>> \in DOMAIN pmc.votes
        THEN [pmc |-> pmc, res |-> "AlreadyVoted"]
    ELSE IF ~token_ok
        THEN [pmc |-> pmc, res |-> "panic"]
    ELSE [pmc |-> [pmc EXCEPT !.votes = Put(@, <<poll_id, voter>>,
                                  [option |-> option, amount |-> amount])],
          res |-> "Ok"]

\* resolve_poll: answer is what the oracle contract returns.
PMC_resolve_poll_call(caller, poll_id, answer, token_ok) ==
    LET d == distribute_rewards(pmc.votes, poll_id, answer)
        none == [v \in Voters |-> 0]
        failed(e) == [pmc |-> pmc, res |-> e, transfers |-> none,
                      total_stake |-> 0, winning_stake |-> 0]
    IN  IF caller # pmc.admin
            THEN failed("panic")
        ELSE IF poll_id \notin DOMAIN pmc.polls
            THEN failed("PollNotFound")
        ELSE IF pmc.polls[poll_id].resolved
            THEN failed("PollNotActive")
        ELSE IF now <= pmc.polls[poll_id].deadline
            THEN failed("DeadlinePassed")
        ELSE IF d.panic \/ (~token_ok /\ \E v \in Voters : d.transfers[v] # 0)
            THEN failed("panic")
        ELSE [pmc |-> [pmc EXCEPT !.polls[poll_id].resolved = TRUE,
                                  !.polls[poll_id].winning_option = answer,
                                  !.votes = d.votes],
              res |-> "Ok", transfers |-> d.transfers,
              total_stake |-> d.total_stake, winning_stake |-> d.winning_stake]

\* ========================================================================
\* CrowdWisdom  (CW)
\* ========================================================================
\* cw: the CrowdWisdomData of the topic account.

\* CreateTopic writes a fresh record over whatever the account holds.
\* rent_exempt: the topic account passes the rent check.
CW_CreateTopic_call(staker, rent_exempt) ==
    IF ~rent_exempt
        THEN [cw |-> cw, res |-> "InsufficientFunds"]
    ELSE [cw |-> [creator |-> staker, participants |-> 0, total_stake |-> 0,
                  consensus_reached |-> FALSE, agreement_count |-> 0,
                  disagreement_count |-> 0],
          res |-> "Ok"]

\* transfer_ok: the system program carries out the transfer of the stake.
\* The u64 counters stay far below u64::MAX for the amounts of the model.
CW_StakeAndVote_call(staker, agree, stake, transfer_ok) ==
    IF stake = 0
        THEN [cw |-> cw, res |-> "InvalidArgument"]
    ELSE IF ~transfer_ok
        THEN [cw |-> cw, res |-> "TransferFailed"]
    ELSE [cw |-> [cw EXCEPT !.agreement_count = IF agree THEN @ + stake ELSE @,
                            !.disagreement_count = IF agree THEN @ ELSE @ + stake,
                            !.participants = @ + 1,
                            !.total_stake = @ + stake],
          res |-> "Ok"]

\* FinalizeTopic: both branches of the threshold test set consensus_reached
\* (0.0 / 0.0 is NaN, and NaN >= 0.60 is false: the else branch).
CW_FinalizeTopic_call(staker) ==
    IF cw.consensus_reached
        THEN [cw |-> cw, res |-> "InvalidAccountData"]
    ELSE [cw |-> [cw EXCEPT !.consensus_reached = TRUE], res |-> "Ok"]

\* ========================================================================
\* DecentralizedAuction  (DA)
\* ========================================================================
\* da: the contract's storage.  ZeroAccount is AccountId::from([0u8; 32]).
\* bids maps the accounts that hold an entry to their bid.
\* da_log records the value moved: offered[a] the sum of a's accepted bids,
\* refunded[a] the sum transferred back to a, to_owner the amounts
\* transferred to the owner, in order.

ZeroAccount == "zero"

\* A place_bid that keeps the outbid entry and refunds nothing, to test
\* C27_OutbidRefundedOneEntryLeft.
DA_place_bid_call_no_refund(caller, transferred_value, transfer_ok) ==
    IF transferred_value = 0 \/ da.auction_finished
          \/ transferred_value <= da.highest_bid
        THEN [da |-> da, res |-> "BidTooLow", refund |-> <<>>]
    ELSE [da |-> [da EXCEPT !.highest_bid = transferred_value,
                            !.highest_bidder = caller,
                            !.bids = Put(@, caller, transferred_value)],
          res |-> "Ok", refund |-> <<>>]

\* A place_bid that accepts a bid equal to highest_bid, to test
\* C28_HighestBidStrictlyIncreases.
DA_place_bid_call_accepting_ties(caller, transferred_value, transfer_ok) ==
    IF transferred_value = 0
        THEN [da |-> da, res |-> "PayableError", refund |-> <<>>]
    ELSE IF da.auction_finished
        THEN [da |-> da, res |-> "AuctionEnded", refund |-> <<>>]
    ELSE IF transferred_value < da.highest_bid
        THEN [da |-> da, res |-> "BidTooLow", refund |-> <<>>]
    ELSE [da |-> [da EXCEPT !.highest_bid = transferred_value,
                            !.highest_bidder = caller,
                            !.bids = (caller :> transferred_value)],
          res |-> "Ok",
          refund |-> IF da.highest_bidder \in DOMAIN da.bids
                        THEN <<da.highest_bidder, da.highest_bid>>
                        ELSE <<>>]

\* transfer_ok: env().transfer succeeds; the code panics when it does not.
\* refund is the transfer the call makes: <<>> for none, <<to, amount>>.
DA_place_bid_call(caller, transferred_value, transfer_ok) ==
    LET refunding == da.highest_bidder # ZeroAccount
                        /\ da.highest_bidder \in DOMAIN da.bids
        kept == IF refunding
                   THEN RestrictTo(da.bids, DOMAIN da.bids \ {da.highest_bidder})
                   ELSE da.bids
        failed(e) == [da |-> da, res |-> e, refund |-> <<>>]
    IN  IF transferred_value = 0
            THEN failed("PayableError")
        ELSE IF da.auction_finished
            THEN failed("AuctionEnded")
        ELSE IF transferred_value <= da.highest_bid
            THEN failed("BidTooLow")
        ELSE IF refunding /\ ~transfer_ok
            THEN failed("panic")
        ELSE [da |-> [da EXCEPT !.highest_bid = transferred_value,
                                !.highest_bidder = caller,
                                !.bids = Put(kept, caller, transferred_value)],
              res |-> "Ok",
              refund |-> IF refunding
                            THEN <<da.highest_bidder, da.bids[da.highest_bidder]>>
                            ELSE <<>>]

DA_end_auction_call(caller) ==
    IF now < da.end_timestamp
        THEN [da |-> da, res |-> "AuctionEnded"]
    ELSE IF da.auction_finished
        THEN [da |-> da, res |-> "AuctionEnded"]
    ELSE [da |-> [da EXCEPT !.auction_finished = TRUE], res |-> "Ok"]

\* A claim_item without the settlement_done check, to test
\* C25_OwnerPaidOnceByWinner.
DA_claim_item_call_unchecked(caller, transfer_ok) ==
    IF ~da.auction_finished \/ caller # da.highest_bidder \/ ~transfer_ok
        THEN [da |-> da, res |-> "AuctionEnded", to_owner |-> <<>>]
    ELSE [da |-> [da EXCEPT !.settlement_done = TRUE], res |-> "Ok",
          to_owner |-> <<da.highest_bid>>]

\* to_owner is the transfer the call makes to the owner: <<>> for none,
\* <<amount>>.
DA_claim_item_call(caller, transfer_ok) ==
    LET failed(e) == [da |-> da, res |-> e, to_owner |-> <<>>]
    IN  IF ~da.auction_finished
            THEN failed("AuctionEnded")
        ELSE IF caller # da.highest_bidder
            THEN failed("NotOwner")
        ELSE IF da.settlement_done
            THEN failed("SettlementAlreadyDone")
        ELSE IF ~transfer_ok
            THEN failed("panic")
        ELSE [da |-> [da EXCEPT !.settlement_done = TRUE], res |-> "Ok",
              to_owner |-> <<da.highest_bid>>]


\* ========================================================================
\* TaskBoard  (TB)
\* ========================================================================

\* tb_log.paid[task_id] is the sum of the bounty transfers complete_task has
\* made for the task.

\* create_task: a zero bounty is refused; the task takes the next id.
TB_create_task_call(caller, bounty) ==
    IF bounty = 0
        THEN [tb |-> tb, res |-> "ZeroBounty"]
    ELSE [tb |-> [next_task_id |-> tb.next_task_id + 1,
                  tasks |-> Put(tb.tasks, tb.next_task_id,
                                [bounty |-> bounty,
                                 contributions |-> [a \in Accounts |-> 0],
                                 status |-> "Open",
                                 assignee |-> None,
                                 creator |-> caller])],
          res |-> "Ok"]

\* contribute (payable): the value sent is added to the caller's pledge.
TB_contribute_call(caller, task_id, transferred_value) ==
    IF transferred_value = 0
        THEN [tb |-> tb, res |-> "InsufficientContribution"]
    ELSE IF task_id \notin DOMAIN tb.tasks
        THEN [tb |-> tb, res |-> "TaskNotFound"]
    ELSE IF tb.tasks[task_id].status = "Completed"
        THEN [tb |-> tb, res |-> "TaskAlreadyCompleted"]
    ELSE [tb |-> [tb EXCEPT !.tasks[task_id].contributions[caller] =
                                @ + transferred_value],
          res |-> "Ok"]

\* assign_task: only the creator; the status is set to InProgress whatever it
\* was before.
TB_assign_task_call(caller, task_id, assignee) ==
    IF task_id \notin DOMAIN tb.tasks
        THEN [tb |-> tb, res |-> "TaskNotFound"]
    ELSE IF caller # tb.tasks[task_id].creator
        THEN [tb |-> tb, res |-> "NotAllowed"]
    ELSE [tb |-> [tb EXCEPT !.tasks[task_id].assignee = assignee,
                            !.tasks[task_id].status = "InProgress"],
          res |-> "Ok"]

\* complete_task: the status is written to the stored task (get_mut) before
\* the transfer of the bounty is attempted; a failed transfer returns
\* TransferFailed with the status already Completed.
TB_complete_task_call(caller, task_id, transfer_ok) ==
    LET task == tb.tasks[task_id]
        total_contributions == SumOver(Accounts, task.contributions)
        completed == [tb EXCEPT !.tasks[task_id].status = "Completed"]
    IN  IF task_id \notin DOMAIN tb.tasks
            THEN [tb |-> tb, res |-> "TaskNotFound"]
        ELSE IF task.assignee = None \/ caller # task.assignee
            THEN [tb |-> tb, res |-> "NotAllowed"]
        ELSE IF total_contributions < task.bounty
            THEN [tb |-> tb, res |-> "InsufficientContribution"]
        ELSE IF ~transfer_ok
            THEN [tb |-> completed, res |-> "TransferFailed"]
        ELSE [tb |-> completed, res |-> "Ok"]

get_task_status(task_id) == tb.tasks[task_id].status


\* ========================================================================
\* Voting  (VT)
\* ========================================================================

\* create_proposal: the name must be new (hash_name is taken to be injective,
\* so proposals are keyed by name); the creator gets a voters entry "not yet
\* voted" if there is at least one option.
VT_create_proposal_call(caller, name, start_time, end_time, options) ==
    IF name \in DOMAIN vt.proposals
        THEN [vt |-> vt, res |-> "ProposalNameTaken"]
    ELSE [vt |-> [proposals |-> Put(vt.proposals, name,
                                    [start_time |-> start_time,
                                     end_time |-> end_time,
                                     options |-> options,
                                     votes |-> [i \in 1..Len(options) |-> 0],
                                     creator |-> caller,
                                     open |-> TRUE]),
                  voters |-> IF Len(options) > 0
                                THEN Put(vt.voters, <<name, caller>>, FALSE)
                                ELSE vt.voters,
                  proposal_count |-> vt.proposal_count + 1],
          res |-> "Ok"]

\* A vote without the AlreadyVoted check, to test
\* C30_VoteCountedOncePerProposal.
VT_vote_call_again(caller, proposal_name, option_index) ==
    LET key == <<proposal_name, caller>>
        proposal == vt.proposals[proposal_name]
    IN  IF proposal_name \notin DOMAIN vt.proposals
            THEN [vt |-> vt, res |-> "ProposalDoesNotExist"]
        ELSE IF ~proposal.open \/ now < proposal.start_time
                \/ now > proposal.end_time
                \/ option_index >= Len(proposal.options)
            THEN [vt |-> vt, res |-> "VotingClosed"]
        ELSE [vt |-> [vt EXCEPT
                         !.proposals[proposal_name].votes[option_index + 1] = @ + 1,
                         !.voters = Put(@, key, TRUE)],
              res |-> "Ok"]

\* vote: a caller without a voters entry gets one ("not yet voted") before
\* the proposal is looked at, so that entry stays when the call then fails.
VT_vote_call(caller, proposal_name, option_index) ==
    LET key == <<proposal_name, caller>>
        proposal == vt.proposals[proposal_name]
        entered == IF key \in DOMAIN vt.voters THEN vt
                   ELSE [vt EXCEPT !.voters = Put(@, key, FALSE)]
    IN  IF proposal_name \notin DOMAIN vt.proposals
            THEN [vt |-> vt, res |-> "ProposalDoesNotExist"]
        ELSE IF key \in DOMAIN vt.voters /\ vt.voters[key]
            THEN [vt |-> vt, res |-> "AlreadyVoted"]
        ELSE IF ~proposal.open \/ now < proposal.start_time
                \/ now > proposal.end_time
            THEN [vt |-> entered, res |-> "VotingClosed"]
        ELSE IF option_index >= Len(proposal.options)
            THEN [vt |-> entered, res |-> "ProposalDoesNotExist"]
        ELSE [vt |-> [entered EXCEPT
                         !.proposals[proposal_name].votes[option_index + 1] = @ + 1,
                         !.voters[key] = TRUE],
              res |-> "Ok"]

VT_close_proposal_call(caller, proposal_name) ==
    IF proposal_name \notin DOMAIN vt.proposals
        THEN [vt |-> vt, res |-> "ProposalDoesNotExist"]
    ELSE IF vt.proposals[proposal_name].creator # caller
        THEN [vt |-> vt, res |-> "Unauthorized"]
    ELSE [vt |-> [vt EXCEPT !.proposals[proposal_name].open = FALSE],
          res |-> "Ok"]


\* ========================================================================
\* VotingContract  (VC)
\* ========================================================================

\* The keys of a soroban Map are iterated in ascending order.
KeyOrder == <<"o1", "o2", "o3">>

\* start_voting: needs the admin's authorisation and at least two options;
\* every option's count starts at 0 and the set of voters is emptied.
VC_start_voting_call(authorized, options, duration) ==
    IF ~authorized
        THEN [vc |-> vc, res |-> "panic"]
    ELSE IF Len(options) < 2
        THEN [vc |-> vc, res |-> "InvalidOptions"]
    ELSE IF vc.voting_in_progress
        THEN [vc |-> vc, res |-> "VotingAlreadyInProgress"]
    ELSE [vc |-> [vc EXCEPT !.voting_in_progress = TRUE,
                            !.voting_options = [o \in SeqSet(options) |-> 0],
                            !.voting_deadline = now + duration,
                            !.voters = {}],
          res |-> "Ok"]

\* A cast_vote that stores the count 1 for the chosen option, to test
\* C29_CountIsNumberOfVoters.
VC_cast_vote_call_count_one(voter, option, balance) ==
    IF ~vc.voting_in_progress \/ now > vc.voting_deadline \/ balance = 0
          \/ voter \in vc.voters \/ option \notin DOMAIN vc.voting_options
        THEN [vc |-> vc, res |-> "InvalidOption"]
    ELSE [vc |-> [vc EXCEPT !.voters = @ \cup {voter},
                            !.vote_counts = [a \in {voter} |-> option],
                            !.voting_options = [o \in {option} |-> 1]],
          res |-> "Ok"]

\* cast_vote: the map stored under VotingOptions after a vote is a new map
\* holding the chosen option alone, and so is the map under VoteCounts.
VC_cast_vote_call(voter, option, balance) ==
    IF ~vc.voting_in_progress
        THEN [vc |-> vc, res |-> "VotingNotStarted"]
    ELSE IF now > vc.voting_deadline
        THEN [vc |-> vc, res |-> "VotingEnded"]
    ELSE IF balance = 0
        THEN [vc |-> vc, res |-> "InsufficientBalance"]
    ELSE IF voter \in vc.voters
        THEN [vc |-> vc, res |-> "AlreadyVoted"]
    ELSE IF option \notin DOMAIN vc.voting_options
        THEN [vc |-> vc, res |-> "InvalidOption"]
    ELSE [vc |-> [vc EXCEPT !.voters = @ \cup {voter},
                            !.vote_counts = [a \in {voter} |-> option],
                            !.voting_options =
                                [o \in {option} |-> vc.voting_options[option] + 1]],
          res |-> "Ok"]

\* get_vote_count: the count stored for the option, 0 when the map has no
\* entry for it.
get_vote_count(option) ==
    IF option \in DOMAIN vc.voting_options THEN vc.voting_options[option] ELSE 0

\* The loop of end_voting over the first k keys: the winning option so far
\* (None if no count was above 0) and its count.
RECURSIVE VC_winning(_, _)
VC_winning(voting_options, k) ==
    IF k = 0 THEN [winning_option |-> None, winning_count |-> 0]
    ELSE LET prev == VC_winning(voting_options, k - 1)
             option == KeyOrder[k]
         IN  IF option \in DOMAIN voting_options
                /\ voting_options[option] > prev.winning_count
                 THEN [winning_option |-> option,
                       winning_count |-> voting_options[option]]
             ELSE prev

\* end_voting: the panics undo the write of VotingInProgress.
VC_end_voting_call(authorized) ==
    LET w == VC_winning(vc.voting_options, Len(KeyOrder))
    IN  IF ~authorized
            THEN [vc |-> vc, res |-> "panic", winning_option |-> None]
        ELSE IF ~vc.voting_in_progress
            THEN [vc |-> vc, res |-> "VotingNotStarted", winning_option |-> None]
        ELSE IF w.winning_option = None
            THEN [vc |-> vc, res |-> "NoVotesCast", winning_option |-> None]
        ELSE [vc |-> [vc EXCEPT !.voting_in_progress = FALSE],
              res |-> "Ok", winning_option |-> w.winning_option]


\* ========================================================================
\* DecentralizedTaskManagement  (DTM)
\* ========================================================================

\* dtm_log.paid[task_id] lists the bounty transfers complete_task has made
\* for the task, in order.

\* create_task: returns nothing; the task takes the id task_count + 1.
DTM_create_task_call(caller, assignee, bounty) ==
    [dtm EXCEPT !.task_count = @ + 1,
                !.tasks = Put(@, dtm.task_count + 1,
                              [assignee |-> assignee, creator |-> caller,
                               status |-> "Open", bounty |-> bounty])]

DTM_assign_task_call(caller, task_id, assignee) ==
    IF task_id \notin DOMAIN dtm.tasks
        THEN [dtm |-> dtm, res |-> "Task not found"]
    ELSE IF dtm.tasks[task_id].creator # caller /\ caller # dtm.owner
        THEN [dtm |-> dtm, res |-> "Only the task creator or contract owner can assign a task"]
    ELSE [dtm |-> [dtm EXCEPT !.tasks[task_id].assignee = assignee],
          res |-> "Ok"]

\* update_task_status: the new status is stored whatever the old one was.
DTM_update_task_status_call(caller, task_id, new_status) ==
    LET task == dtm.tasks[task_id]
    IN  IF task_id \notin DOMAIN dtm.tasks
            THEN [dtm |-> dtm, res |-> "Task not found"]
        ELSE IF new_status = "Completed" /\ task.assignee # caller
            THEN [dtm |-> dtm, res |-> "Only the assignee can mark a task as completed"]
        ELSE IF task.creator # caller /\ caller # task.assignee /\ caller # dtm.owner
            THEN [dtm |-> dtm, res |-> "Only the creator, assignee, or contract owner can update the status."]
        ELSE [dtm |-> [dtm EXCEPT !.tasks[task_id].status = new_status],
              res |-> "Ok"]

\* complete_task: balance is the contract's balance, transfer_ok whether the
\* transfer of the bounty goes through.
DTM_complete_task_call(caller, task_id, balance, transfer_ok) ==
    LET task == dtm.tasks[task_id]
    IN  IF task_id \notin DOMAIN dtm.tasks
            THEN [dtm |-> dtm, res |-> "Task not found"]
        ELSE IF task.assignee # caller
            THEN [dtm |-> dtm, res |-> "Only the assignee can complete the task"]
        ELSE IF task.status # "InProgress"
            THEN [dtm |-> dtm, res |-> "Task must be in progress to be completed"]
        ELSE IF balance < task.bounty
            THEN [dtm |-> dtm, res |-> "Insufficient contract balance to pay the bounty"]
        ELSE IF ~transfer_ok
            THEN [dtm |-> dtm, res |-> "Transfer failed"]
        ELSE [dtm |-> [dtm EXCEPT !.tasks[task_id].status = "Completed"],
              res |-> "Ok"]

\* cancel_task: the creator or the owner; the status is not looked at.
DTM_cancel_task_call(caller, task_id) ==
    IF task_id \notin DOMAIN dtm.tasks
        THEN [dtm |-> dtm, res |-> "Task not found"]
    ELSE IF dtm.tasks[task_id].creator # caller /\ caller # dtm.owner
        THEN [dtm |-> dtm, res |-> "Only the task creator or contract owner can cancel a task"]
    ELSE [dtm |-> [dtm EXCEPT !.tasks[task_id].status = "Cancelled"],
          res |-> "Ok"]


\* ========================================================================
\* SubscriptionManager  (SM)
\* ========================================================================
\* sm: the instance storage: Admin, TierCount and the Tier(id) entries.

\* add_tier: the new tier is stored under TierCount + 1.  require_auth traps
\* a call the admin did not sign.
SM_add_tier_call(caller, name, price) ==
    LET new_tier_id == sm.tier_count + 1
    IN  IF caller # sm.admin
            THEN [sm |-> sm, res |-> "panic"]
        ELSE [sm |-> [sm EXCEPT !.tiers = Put(@, new_tier_id,
                                      [name |-> name, price |-> price]),
                                !.tier_count = @ + 1],
              res |-> "Ok"]

\* delete_tier: removes the entry and decrements TierCount.
SM_delete_tier_call(caller, tier_id) ==
    IF caller # sm.admin
        THEN [sm |-> sm, res |-> "panic"]
    ELSE IF tier_id \notin DOMAIN sm.tiers
        THEN [sm |-> sm, res |-> "tier_not_found"]
    ELSE [sm |-> [sm EXCEPT !.tiers = RestrictTo(@, DOMAIN @ \ {tier_id}),
                            !.tier_count = IF @ > 0 THEN @ - 1 ELSE @],
          res |-> "Ok"]


\* ========================================================================
\* DecentralizedOpinionPolling  (DOP)
\* ========================================================================
\* dop: the contract's storage.  votes maps (poll id, account) to the weight
\* of the vote cast.  A voting_power_strategy is a record [kind,
\* token_address]; token_address is None unless kind is "TokenWeighted".

\* create_poll: the poll takes the id poll_count + 1 and starts active.
DOP_create_poll_call(caller, options, start_timestamp, end_timestamp, strategy) ==
    LET poll_id == dop.poll_count + 1
    IN  IF start_timestamp >= end_timestamp
            THEN [dop |-> dop, res |-> "InvalidTimeRange"]
        ELSE [dop |-> [dop EXCEPT
                         !.poll_count = poll_id,
                         !.polls = Put(@, poll_id,
                             [id |-> poll_id,
                              options |-> options,
                              start_timestamp |-> start_timestamp,
                              end_timestamp |-> end_timestamp,
                              is_active |-> TRUE,
                              voting_power_strategy |-> strategy,
                              results |-> [i \in 1..Len(options) |-> 0]])],
              res |-> "Ok"]

\* A vote that never looks at is_active, to test C31_EndedPollIsFinal.
DOP_vote_call_on_any_poll(caller, poll_id, option_index, balance) ==
    IF poll_id \notin DOMAIN dop.polls
        THEN [dop |-> dop, res |-> "PollNotFound"]
    ELSE IF option_index >= Len(dop.polls[poll_id].options)
            \/ <<poll_id, caller>> \in DOMAIN dop.votes
        THEN [dop |-> dop, res |-> "InvalidOption"]
    ELSE [dop |-> [dop EXCEPT
                     !.polls[poll_id].results[option_index + 1] = @ + 1,
                     !.votes = Put(@, <<poll_id, caller>>, 1)],
          res |-> "Ok"]

\* vote: balance is env().balance(); `balance as u32` keeps its low 32 bits,
\* and the count is added with checked_add on u32.
DOP_vote_call(caller, poll_id, option_index, balance) ==
    LET poll == dop.polls[poll_id]
        strategy == poll.voting_power_strategy
        vote_weight == IF strategy.kind = "BalanceWeighted"
                          THEN balance % (U32_MAX + 1)
                          ELSE 1
    IN  IF poll_id \notin DOMAIN dop.polls
            THEN [dop |-> dop, res |-> "PollNotFound"]
        ELSE IF ~poll.is_active
            THEN [dop |-> dop, res |-> "PollNotActive"]
        ELSE IF now < poll.start_timestamp
            THEN [dop |-> dop, res |-> "PollNotStarted"]
        ELSE IF now > poll.end_timestamp
            THEN [dop |-> dop, res |-> "PollEnded"]
        ELSE IF option_index >= Len(poll.options)
            THEN [dop |-> dop, res |-> "InvalidOption"]
        ELSE IF <<poll_id, caller>> \in DOMAIN dop.votes
            THEN [dop |-> dop, res |-> "AlreadyVoted"]
        ELSE IF strategy.kind = "BalanceWeighted" /\ balance = 0
            THEN [dop |-> dop, res |-> "InsufficientBalance"]
        ELSE IF strategy.kind = "TokenWeighted"
                /\ strategy.token_address = ZeroAccount
            THEN [dop |-> dop, res |-> "InvalidTokenAddress"]
        ELSE IF poll.results[option_index + 1] + vote_weight > U32_MAX
            THEN [dop |-> dop, res |-> "Overflow"]
        ELSE [dop |-> [dop EXCEPT
                         !.polls[poll_id].results[option_index + 1] =
                             @ + vote_weight,
                         !.votes = Put(@, <<poll_id, caller>>, vote_weight)],
              res |-> "Ok"]

\* end_poll: only the owner; the poll stops being active.
DOP_end_poll_call(caller, poll_id) ==
    IF caller # dop.owner
        THEN [dop |-> dop, res |-> "NotOwner"]
    ELSE IF poll_id \notin DOMAIN dop.polls
        THEN [dop |-> dop, res |-> "PollNotFound"]
    ELSE IF ~dop.polls[poll_id].is_active
        THEN [dop |-> dop, res |-> "PollNotActive"]
    ELSE [dop |-> [dop EXCEPT !.polls[poll_id].is_active = FALSE],
          res |-> "Ok"]


\* ========================================================================
\* ReputationOracle  (RO)
\* ========================================================================
\* ro: the contract's storage.  ratings maps (subject, rater) to the rating,
\* reputations maps the subjects rated so far to their score, and
\* raters_whitelist is the Vec of whitelisted accounts.

\* A rate without the AlreadyRated check, to test
\* C33_ReputationIsSumOfRatings.
RO_rate_call_again(caller, subject, rating) ==
    IF (caller \notin SeqSet(ro.raters_whitelist) /\ caller # ro.admin)
          \/ rating < 1 \/ rating > 10
        THEN [ro |-> ro, res |-> "RatingOutOfBounds"]
    ELSE [ro |-> [ro EXCEPT
                    !.ratings = Put(@, <<subject, caller>>, rating),
                    !.reputations =
                        Put(@, subject,
                            (IF subject \in DOMAIN @ THEN @[subject] ELSE 0)
                               + rating)],
          res |-> "Ok"]

\* rate: the caller must be whitelisted or be the admin.
RO_rate_call(caller, subject, rating) ==
    LET current_reputation == IF subject \in DOMAIN ro.reputations
                                 THEN ro.reputations[subject] ELSE 0
    IN  IF caller \notin SeqSet(ro.raters_whitelist) /\ caller # ro.admin
            THEN [ro |-> ro, res |-> "CallerNotAuthorized"]
        ELSE IF rating < 1 \/ rating > 10
            THEN [ro |-> ro, res |-> "RatingOutOfBounds"]
        ELSE IF <<subject, caller>> \in DOMAIN ro.ratings
            THEN [ro |-> ro, res |-> "AlreadyRated"]
        ELSE [ro |-> [ro EXCEPT
                        !.ratings = Put(@, <<subject, caller>>, rating),
                        !.reputations = Put(@, subject,
                                            current_reputation + rating)],
              res |-> "Ok"]


\* ========================================================================
\* State machine
\* ========================================================================

vars == <<deployed, now, calls, ret, pm, pm_log, pmc, pmc_log, cw, da,
          tb, vt, vc, vc_log, dtm, sm, da_log, dop,
          ro, tb_log, dtm_log>>

PM_Storage0 ==
    [admin |-> "a1", outcomes |-> <<"o1", "o2">>, resolution_timestamp |-> 1,
     resolved |-> FALSE, resolved_outcome |-> None,
     stake |-> [k \in AccountOutcome |-> 0],
     pool |-> [o \in Outcomes |-> 0],
     total_liquidity |-> 0]

PM_Log0 ==
    [claims |-> [k \in AccountOutcome |-> 0], paid |-> 0, staked |-> 0,
     reinit |-> FALSE]

PMC_Storage0 ==
    [admin |-> "a1", poll_count |-> 0, polls |-> <<>>, votes |-> <<>>]

PMC_Log0 ==
    [staked |-> [p \in PollIds |-> 0], paid |-> [p \in PollIds |-> 0]]

CW_Data0 ==
    [creator |-> "a1", participants |-> 0, total_stake |-> 0,
     consensus_reached |-> FALSE, agreement_count |-> 0,
     disagreement_count |-> 0]

DA_Storage0 ==
    [owner |-> "a1", end_timestamp |-> 1, highest_bid |-> 0,
     highest_bidder |-> ZeroAccount, bids |-> <<>>,
     auction_finished |-> FALSE, settlement_done |-> FALSE]

TB_Storage0 ==
    [next_task_id |-> 0, tasks |-> <<>>]

VT_Storage0 ==
    [proposals |-> <<>>, voters |-> <<>>, proposal_count |-> 0]

\* VotingContract after initialize(token_contract, admin); an absent
\* VotingInProgress reads as false.
VC_Storage0 ==
    [admin |-> "a1", voting_in_progress |-> FALSE, voting_options |-> <<>>,
     voting_deadline |-> 0, voters |-> {}, vote_counts |-> <<>>]

\* What start_voting declared and the votes cast_vote accepted since.
VC_Log0 ==
    [options |-> <<>>, totals |-> [o \in Outcomes |-> 0]]

DTM_Storage0 ==
    [owner |-> "a1", task_count |-> 0, tasks |-> <<>>]

SM_Storage0 ==
    [admin |-> "a1", tier_count |-> 0, tiers |-> <<>>]

\* The state every contract other than the deployed one keeps.
Idle ==
    /\ now = 0
    /\ calls = 0
    /\ pm_log = PM_Log0
    /\ pmc_log = PMC_Log0
    /\ tb = TB_Storage0
    /\ vt = VT_Storage0
    /\ vc = VC_Storage0
    /\ vc_log = VC_Log0
    /\ dtm = DTM_Storage0
    /\ sm = SM_Storage0
    /\ da_log = [offered |-> [a \in Accounts |-> 0],
                 refunded |-> [a \in Accounts |-> 0],
                 to_owner |-> <<>>]
    /\ dop = [owner |-> "a1", polls |-> <<>>, poll_count |-> 0,
              votes |-> <<>>]
    /\ ro = [ratings |-> <<>>, reputations |-> <<>>, min_ratings |-> 1,
             admin |-> "a1", raters_whitelist |-> <<"a2">>]
    /\ tb_log = [paid |-> [task_id \in TaskIds |-> 0]]
    /\ dtm_log = [paid |-> [task_id \in TaskIds |-> <<>>]]

\* PredictionMarket after init(admin, outcomes, resolution_timestamp).
PM_Init ==
    /\ deployed = "PM"
    /\ Idle
    /\ \E outcomes \in OutcomeLists, t \in Timestamps :
          pm = [PM_Storage0 EXCEPT !.outcomes = outcomes,
                                   !.resolution_timestamp = t]
    /\ pmc = PMC_Storage0 /\ cw = CW_Data0 /\ da = DA_Storage0
    /\ ret = [op |-> "init", res |-> "Ok"]

\* The market after init and one add_liquidity(amounts[i]) per entry of
\* amounts, none of which overflows: every listed pool holds the sum of the
\* per-outcome shares amounts[i] / num_outcomes, total_liquidity the sum of
\* the amounts.
PM_Funded(outcomes, amounts) ==
    LET idx == DOMAIN amounts
        shares == SumOver(idx, [i \in idx |-> TruncDiv(amounts[i], Len(outcomes))])
    IN  [PM_Storage0 EXCEPT
            !.outcomes = outcomes,
            !.pool = [o \in Outcomes |->
                         IF o \in SeqSet(outcomes) THEN shares ELSE 0],
            !.total_liquidity = SumOver(idx, amounts)]

\* PredictionMarket after init(admin, outcomes, resolution_timestamp) and the
\* add_liquidity calls of one of LiquiditySeeds.
PM_InitFunded ==
    /\ deployed = "PM"
    /\ Idle
    /\ \E outcomes \in OutcomeLists, t \in Timestamps, amounts \in LiquiditySeeds :
          pm = [PM_Funded(outcomes, amounts) EXCEPT !.resolution_timestamp = t]
    /\ pmc = PMC_Storage0 /\ cw = CW_Data0 /\ da = DA_Storage0
    /\ ret = [op |-> "add_liquidity", res |-> "Ok"]

\* PredictiveMarketContract after initialize(admin, token, oracle).
PMC_Init ==
    /\ deployed = "PMC"
    /\ Idle
    /\ pm = PM_Storage0 /\ pmc = PMC_Storage0 /\ cw = CW_Data0 /\ da = DA_Storage0
    /\ ret = [op |-> "initialize", res |-> "Ok"]

\* CrowdWisdom after CreateTopic by a1.
CW_Init ==
    /\ deployed = "CW"
    /\ Idle
    /\ pm = PM_Storage0 /\ pmc = PMC_Storage0 /\ cw = CW_Data0 /\ da = DA_Storage0
    /\ ret = [op |-> "CreateTopic", res |-> "Ok"]

\* DecentralizedAuction after new(item_description, duration) by a1.
DA_Init ==
    /\ deployed = "DA"
    /\ Idle
    /\ pm = PM_Storage0 /\ pmc = PMC_Storage0 /\ cw = CW_Data0
    /\ \E t \in Timestamps : da = [DA_Storage0 EXCEPT !.end_timestamp = t]
    /\ ret = [op |-> "new", res |-> "Ok"]

\* A call to the deployed contract c.
Call(c) ==
    /\ deployed = c
    /\ calls < MaxCalls
    /\ calls' = calls + 1
    /\ UNCHANGED <<deployed, now>>

\* The ledger / block timestamp advances.
Tick ==
    /\ now < MaxTime
    /\ now' = now + 1
    /\ UNCHANGED <<deployed, calls, ret, pm, pm_log, pmc, pmc_log, cw, da, tb, vt, vc, vc_log, dtm, sm, da_log, dop, ro, tb_log, dtm_log>>

\* ---------------------------------------------------------------- PM
PM_init ==
    /\ Call("PM")
    /\ \E admin \in Accounts, outcomes \in OutcomeLists, t \in Timestamps :
          pm' = PM_init_call(admin, outcomes, t)
    /\ pm_log' = [pm_log EXCEPT !.reinit = TRUE]
    /\ ret' = [op |-> "init", res |-> "Ok"]
    /\ UNCHANGED <<pmc, pmc_log, cw, da, tb, vt, vc, vc_log, dtm, sm, da_log, dop, ro, tb_log, dtm_log>>

PM_deposit ==
    /\ Call("PM")
    /\ \E from \in Accounts, outcome \in Outcomes, amount \in StakeAmounts :
          LET r == PM_deposit_call(from, outcome, amount)
          IN  /\ pm' = r.pm
              /\ ret' = [op |-> "deposit", res |-> r.res]
              /\ pm_log' = IF r.res = "Ok"
                              THEN [pm_log EXCEPT !.staked = @ + amount]
                              ELSE pm_log
    /\ UNCHANGED <<pmc, pmc_log, cw, da, tb, vt, vc, vc_log, dtm, sm, da_log, dop, ro, tb_log, dtm_log>>

PM_withdraw ==
    /\ Call("PM")
    /\ \E to \in Accounts, outcome \in Outcomes, amount \in StakeAmounts :
          LET r == PM_withdraw_call(to, outcome, amount)
          IN  /\ pm' = r.pm
              /\ ret' = [op |-> "withdraw", res |-> r.res]
    /\ UNCHANGED <<pm_log, pmc, pmc_log, cw, da, tb, vt, vc, vc_log, dtm, sm, da_log, dop, ro, tb_log, dtm_log>>

PM_resolve ==
    /\ Call("PM")
    /\ \E by \in Accounts, resolved_outcome \in Outcomes :
          LET r == PM_resolve_call(by, resolved_outcome)
          IN  /\ pm' = r.pm
              /\ ret' = [op |-> "resolve", res |-> r.res]
    /\ UNCHANGED <<pm_log, pmc, pmc_log, cw, da, tb, vt, vc, vc_log, dtm, sm, da_log, dop, ro, tb_log, dtm_log>>

PM_claim ==
    /\ Call("PM")
    /\ \E to \in Accounts, outcome \in Outcomes, overflow_checks \in BOOLEAN :
          LET r == IF overflow_checks THEN PM_claim_call(to, outcome)
                   ELSE PM_claim_wrapping_call(to, outcome)
          IN  /\ pm' = r.pm
              /\ ret' = [op |-> "claim", res |-> r.res]
              /\ pm_log' = IF r.res = "Ok"
                              THEN [pm_log EXCEPT !.claims[<<to, outcome>>] = @ + 1,
                                                  !.paid = @ + r.winnings]
                              ELSE pm_log
    /\ UNCHANGED <<pmc, pmc_log, cw, da, tb, vt, vc, vc_log, dtm, sm, da_log, dop, ro, tb_log, dtm_log>>

PM_add_liquidity ==
    /\ Call("PM")
    /\ \E from \in Accounts, amount \in LiquidityAmounts :
          LET r == PM_add_liquidity_call(from, amount)
          IN  /\ pm' = r.pm
              /\ ret' = [op |-> "add_liquidity", res |-> r.res]
    /\ UNCHANGED <<pm_log, pmc, pmc_log, cw, da, tb, vt, vc, vc_log, dtm, sm, da_log, dop, ro, tb_log, dtm_log>>

PM_remove_liquidity ==
    /\ Call("PM")
    /\ \E to \in Accounts, amount \in LiquidityAmounts :
          LET r == PM_remove_liquidity_call(to, amount)
          IN  /\ pm' = r.pm
              /\ ret' = [op |-> "remove_liquidity", res |-> r.res]
    /\ UNCHANGED <<pm_log, pmc, pmc_log, cw, da, tb, vt, vc, vc_log, dtm, sm, da_log, dop, ro, tb_log, dtm_log>>

\* ---------------------------------------------------------------- PMC
PMC_create_poll ==
    /\ Call("PMC")
    /\ pmc.poll_count + 1 \in PollIds
    /\ \E caller \in Accounts, deadline \in Deadlines :
          LET r == PMC_create_poll_call(caller, deadline)
          IN  /\ pmc' = r.pmc
              /\ ret' = [op |-> "create_poll", res |-> r.res]
    /\ UNCHANGED <<pm, pm_log, pmc_log, cw, da, tb, vt, vc, vc_log, dtm, sm, da_log, dop, ro, tb_log, dtm_log>>

PMC_vote ==
    /\ Call("PMC")
    /\ \E voter \in Voters, poll_id \in PollIds, option \in VoteOptions,
          amount \in VoteAmounts :
          LET r == PMC_vote_call(voter, poll_id, option, amount, TRUE)
          IN  /\ pmc' = r.pmc
              /\ ret' = [op |-> "vote", res |-> r.res]
              /\ pmc_log' = IF r.res = "Ok"
                               THEN [pmc_log EXCEPT !.staked[poll_id] = @ + amount]
                               ELSE pmc_log
    /\ UNCHANGED <<pm, pm_log, cw, da, tb, vt, vc, vc_log, dtm, sm, da_log, dop, ro, tb_log, dtm_log>>

PMC_resolve_poll ==
    /\ Call("PMC")
    /\ \E caller \in Accounts, poll_id \in PollIds, answer \in OracleAnswers,
          token_ok \in BOOLEAN :
          LET r == PMC_resolve_poll_call(caller, poll_id, answer, token_ok)
          IN  /\ pmc' = r.pmc
              /\ ret' = [op |-> "resolve_poll", res |-> r.res,
                         total_stake |-> r.total_stake,
                         winning_stake |-> r.winning_stake]
              /\ pmc_log' = IF r.res = "Ok"
                               THEN [pmc_log EXCEPT !.paid[poll_id] =
                                        @ + SumOver(Voters, r.transfers)]
                               ELSE pmc_log
    /\ UNCHANGED <<pm, pm_log, cw, da, tb, vt, vc, vc_log, dtm, sm, da_log, dop, ro, tb_log, dtm_log>>

\* ---------------------------------------------------------------- CW
CW_CreateTopic ==
    /\ Call("CW")
    /\ \E staker \in Accounts, rent_exempt \in BOOLEAN :
          LET r == CW_CreateTopic_call(staker, rent_exempt)
          IN  /\ cw' = r.cw
              /\ ret' = [op |-> "CreateTopic", res |-> r.res]
    /\ UNCHANGED <<pm, pm_log, pmc, pmc_log, da, tb, vt, vc, vc_log, dtm, sm, da_log, dop, ro, tb_log, dtm_log>>

CW_StakeAndVote ==
    /\ Call("CW")
    /\ \E staker \in Accounts, agree \in BOOLEAN, stake \in Lamports,
          transfer_ok \in BOOLEAN :
          LET r == CW_StakeAndVote_call(staker, agree, stake, transfer_ok)
          IN  /\ cw' = r.cw
              /\ ret' = [op |-> "StakeAndVote", res |-> r.res]
    /\ UNCHANGED <<pm, pm_log, pmc, pmc_log, da, tb, vt, vc, vc_log, dtm, sm, da_log, dop, ro, tb_log, dtm_log>>

CW_FinalizeTopic ==
    /\ Call("CW")
    /\ \E staker \in Accounts :
          LET r == CW_FinalizeTopic_call(staker)
          IN  /\ cw' = r.cw
              /\ ret' = [op |-> "FinalizeTopic", res |-> r.res]
    /\ UNCHANGED <<pm, pm_log, pmc, pmc_log, da, tb, vt, vc, vc_log, dtm, sm, da_log, dop, ro, tb_log, dtm_log>>

\* ---------------------------------------------------------------- DA
DA_place_bid ==
    /\ Call("DA")
    /\ \E caller \in Accounts, transferred_value \in BidAmounts,
          transfer_ok \in BOOLEAN :
          LET r == DA_place_bid_call(caller, transferred_value, transfer_ok)
          IN  /\ da' = r.da
              /\ ret' = [op |-> "place_bid", res |-> r.res]
              /\ da_log' =
                    IF r.res # "Ok" THEN da_log
                    ELSE [da_log EXCEPT
                            !.offered[caller] = @ + transferred_value,
                            !.refunded = IF r.refund = <<>> THEN @
                                         ELSE [@ EXCEPT ![r.refund[1]] =
                                                  @ + r.refund[2]]]
    /\ UNCHANGED <<pm, pm_log, pmc, pmc_log, cw, tb, vt, vc, vc_log, dtm, sm, dop, ro, tb_log, dtm_log>>

DA_end_auction ==
    /\ Call("DA")
    /\ \E caller \in Accounts :
          LET r == DA_end_auction_call(caller)
          IN  /\ da' = r.da
              /\ ret' = [op |-> "end_auction", res |-> r.res]
    /\ UNCHANGED <<pm, pm_log, pmc, pmc_log, cw, tb, vt, vc, vc_log, dtm, sm, da_log, dop, ro, tb_log, dtm_log>>

DA_claim_item ==
    /\ Call("DA")
    /\ \E caller \in Accounts, transfer_ok \in BOOLEAN :
          LET r == DA_claim_item_call(caller, transfer_ok)
          IN  /\ da' = r.da
              /\ ret' = [op |-> "claim_item", res |-> r.res]
              /\ da_log' = [da_log EXCEPT !.to_owner = @ \o r.to_owner]
    /\ UNCHANGED <<pm, pm_log, pmc, pmc_log, cw, tb, vt, vc, vc_log, dtm, sm, dop, ro, tb_log, dtm_log>>

\* ---------------------------------------------------------------- TB
\* TaskBoard after new().
TB_Init ==
    /\ deployed = "TB"
    /\ Idle
    /\ pm = PM_Storage0 /\ pmc = PMC_Storage0 /\ cw = CW_Data0 /\ da = DA_Storage0
    /\ ret = [op |-> "new", res |-> "Ok"]

TB_create_task ==
    /\ Call("TB")
    /\ tb.next_task_id + 1 \in TaskIds
    /\ \E caller \in Accounts, bounty \in Bounties :
          LET r == TB_create_task_call(caller, bounty)
          IN  /\ tb' = r.tb
              /\ ret' = [op |-> "create_task", res |-> r.res]
    /\ UNCHANGED <<pm, pm_log, pmc, pmc_log, cw, da, vt, vc, vc_log, dtm, sm, da_log, dop, ro, tb_log, dtm_log>>

TB_contribute ==
    /\ Call("TB")
    /\ \E caller \in Accounts, task_id \in TaskIds,
          transferred_value \in Contributions :
          LET r == TB_contribute_call(caller, task_id, transferred_value)
          IN  /\ tb' = r.tb
              /\ ret' = [op |-> "contribute", res |-> r.res]
    /\ UNCHANGED <<pm, pm_log, pmc, pmc_log, cw, da, vt, vc, vc_log, dtm, sm, da_log, dop, ro, tb_log, dtm_log>>

TB_assign_task ==
    /\ Call("TB")
    /\ \E caller \in Accounts, task_id \in TaskIds, assignee \in Accounts :
          LET r == TB_assign_task_call(caller, task_id, assignee)
          IN  /\ tb' = r.tb
              /\ ret' = [op |-> "assign_task", res |-> r.res]
    /\ UNCHANGED <<pm, pm_log, pmc, pmc_log, cw, da, vt, vc, vc_log, dtm, sm, da_log, dop, ro, tb_log, dtm_log>>

TB_complete_task ==
    /\ Call("TB")
    /\ \E caller \in Accounts, task_id \in TaskIds, transfer_ok \in BOOLEAN :
          LET r == TB_complete_task_call(caller, task_id, transfer_ok)
          IN  /\ tb' = r.tb
              /\ ret' = [op |-> "complete_task", res |-> r.res]
              /\ tb_log' = IF r.res = "Ok"
                              THEN [tb_log EXCEPT !.paid[task_id] =
                                       @ + tb.tasks[task_id].bounty]
                              ELSE tb_log
    /\ UNCHANGED <<pm, pm_log, pmc, pmc_log, cw, da, vt, vc, vc_log, dtm, sm,
                   da_log, dop, ro, dtm_log>>

\* ---------------------------------------------------------------- VT
\* Voting after new().
VT_Init ==
    /\ deployed = "VT"
    /\ Idle
    /\ pm = PM_Storage0 /\ pmc = PMC_Storage0 /\ cw = CW_Data0 /\ da = DA_Storage0
    /\ ret = [op |-> "new", res |-> "Ok"]

VT_create_proposal ==
    /\ Call("VT")
    /\ \E caller \in Accounts, name \in ProposalNames, start_time \in Deadlines,
          end_time \in Deadlines, options \in OutcomeLists :
          LET r == VT_create_proposal_call(caller, name, start_time, end_time,
                                           options)
          IN  /\ vt' = r.vt
              /\ ret' = [op |-> "create_proposal", res |-> r.res]
    /\ UNCHANGED <<pm, pm_log, pmc, pmc_log, cw, da, tb, vc, vc_log, dtm, sm, da_log, dop, ro, tb_log, dtm_log>>

VT_vote ==
    /\ Call("VT")
    /\ \E caller \in Accounts, proposal_name \in ProposalNames,
          option_index \in OracleAnswers :
          LET r == VT_vote_call(caller, proposal_name, option_index)
          IN  /\ vt' = r.vt
              /\ ret' = [op |-> "vote", res |-> r.res]
    /\ UNCHANGED <<pm, pm_log, pmc, pmc_log, cw, da, tb, vc, vc_log, dtm, sm, da_log, dop, ro, tb_log, dtm_log>>

VT_close_proposal ==
    /\ Call("VT")
    /\ \E caller \in Accounts, proposal_name \in ProposalNames :
          LET r == VT_close_proposal_call(caller, proposal_name)
          IN  /\ vt' = r.vt
              /\ ret' = [op |-> "close_proposal", res |-> r.res]
    /\ UNCHANGED <<pm, pm_log, pmc, pmc_log, cw, da, tb, vc, vc_log, dtm, sm, da_log, dop, ro, tb_log, dtm_log>>

\* ---------------------------------------------------------------- VC
VC_Init ==
    /\ deployed = "VC"
    /\ Idle
    /\ pm = PM_Storage0 /\ pmc = PMC_Storage0 /\ cw = CW_Data0 /\ da = DA_Storage0
    /\ ret = [op |-> "initialize", res |-> "Ok"]

VC_start_voting ==
    /\ Call("VC")
    /\ \E authorized \in BOOLEAN, options \in VotingOptionLists,
          duration \in Deadlines :
          LET r == VC_start_voting_call(authorized, options, duration)
          IN  /\ vc' = r.vc
              /\ ret' = [op |-> "start_voting", res |-> r.res]
              /\ vc_log' = IF r.res = "Ok"
                              THEN [options |-> options,
                                    totals |-> [o \in Outcomes |-> 0]]
                              ELSE vc_log
    /\ UNCHANGED <<pm, pm_log, pmc, pmc_log, cw, da, tb, vt, dtm, sm, da_log, dop, ro, tb_log, dtm_log>>

VC_cast_vote ==
    /\ Call("VC")
    /\ \E voter \in Voters, option \in Outcomes, balance \in Balances :
          LET r == VC_cast_vote_call(voter, option, balance)
          IN  /\ vc' = r.vc
              /\ ret' = [op |-> "cast_vote", res |-> r.res]
              /\ vc_log' = IF r.res = "Ok"
                              THEN [vc_log EXCEPT !.totals[option] = @ + 1]
                              ELSE vc_log
    /\ UNCHANGED <<pm, pm_log, pmc, pmc_log, cw, da, tb, vt, dtm, sm, da_log, dop, ro, tb_log, dtm_log>>

VC_end_voting ==
    /\ Call("VC")
    /\ \E authorized \in BOOLEAN :
          LET r == VC_end_voting_call(authorized)
          IN  /\ vc' = r.vc
              /\ ret' = [op |-> "end_voting", res |-> r.res,
                         winning_option |-> r.winning_option]
    /\ UNCHANGED <<pm, pm_log, pmc, pmc_log, cw, da, tb, vt, vc_log, dtm, sm, da_log, dop, ro, tb_log, dtm_log>>

\* ---------------------------------------------------------------- DTM
\* DecentralizedTaskManagement after new() by a1.
DTM_Init ==
    /\ deployed = "DTM"
    /\ Idle
    /\ pm = PM_Storage0 /\ pmc = PMC_Storage0 /\ cw = CW_Data0 /\ da = DA_Storage0
    /\ ret = [op |-> "new", res |-> "Ok"]

DTM_create_task ==
    /\ Call("DTM")
    /\ dtm.task_count + 1 \in TaskIds
    /\ \E caller \in Accounts, assignee \in Accounts, bounty \in Bounties :
          dtm' = DTM_create_task_call(caller, assignee, bounty)
    /\ ret' = [op |-> "create_task", res |-> "Ok"]
    /\ UNCHANGED <<pm, pm_log, pmc, pmc_log, cw, da, tb, vt, vc, vc_log, sm, da_log, dop, ro, tb_log, dtm_log>>

DTM_assign_task ==
    /\ Call("DTM")
    /\ \E caller \in Accounts, task_id \in TaskIds, assignee \in Accounts :
          LET r == DTM_assign_task_call(caller, task_id, assignee)
          IN  /\ dtm' = r.dtm
              /\ ret' = [op |-> "assign_task", res |-> r.res]
    /\ UNCHANGED <<pm, pm_log, pmc, pmc_log, cw, da, tb, vt, vc, vc_log, sm, da_log, dop, ro, tb_log, dtm_log>>

DTM_update_task_status ==
    /\ Call("DTM")
    /\ \E caller \in Accounts, task_id \in TaskIds, new_status \in TaskStatus :
          LET r == DTM_update_task_status_call(caller, task_id, new_status)
          IN  /\ dtm' = r.dtm
              /\ ret' = [op |-> "update_task_status", res |-> r.res]
    /\ UNCHANGED <<pm, pm_log, pmc, pmc_log, cw, da, tb, vt, vc, vc_log, sm, da_log, dop, ro, tb_log, dtm_log>>

DTM_complete_task ==
    /\ Call("DTM")
    /\ \E caller \in Accounts, task_id \in TaskIds, balance \in Balances,
          transfer_ok \in BOOLEAN :
          LET r == DTM_complete_task_call(caller, task_id, balance, transfer_ok)
          IN  /\ dtm' = r.dtm
              /\ ret' = [op |-> "complete_task", res |-> r.res]
              /\ dtm_log' = IF r.res = "Ok"
                               THEN [dtm_log EXCEPT !.paid[task_id] =
                                        Append(@, dtm.tasks[task_id].bounty)]
                               ELSE dtm_log
    /\ UNCHANGED <<pm, pm_log, pmc, pmc_log, cw, da, tb, vt, vc, vc_log, sm,
                   da_log, dop, ro, tb_log>>

DTM_cancel_task ==
    /\ Call("DTM")
    /\ \E caller \in Accounts, task_id \in TaskIds :
          LET r == DTM_cancel_task_call(caller, task_id)
          IN  /\ dtm' = r.dtm
              /\ ret' = [op |-> "cancel_task", res |-> r.res]
    /\ UNCHANGED <<pm, pm_log, pmc, pmc_log, cw, da, tb, vt, vc, vc_log, sm, da_log, dop, ro, tb_log, dtm_log>>

\* ---------------------------------------------------------------- SM
\* SubscriptionManager after initialize(a1, token_contract, epoch_duration).
SM_Init ==
    /\ deployed = "SM"
    /\ Idle
    /\ pm = PM_Storage0 /\ pmc = PMC_Storage0 /\ cw = CW_Data0 /\ da = DA_Storage0
    /\ ret = [op |-> "initialize", res |-> "Ok"]

SM_add_tier ==
    /\ Call("SM")
    /\ sm.tier_count < MaxTiers
    /\ \E caller \in Accounts, name \in {"basic", "pro"}, price \in {1, 2} :
          LET r == SM_add_tier_call(caller, name, price)
          IN  /\ sm' = r.sm
              /\ ret' = [op |-> "add_tier", res |-> r.res]
    /\ UNCHANGED <<pm, pm_log, pmc, pmc_log, cw, da, tb, vt, vc, vc_log, dtm, da_log, dop, ro, tb_log, dtm_log>>

SM_delete_tier ==
    /\ Call("SM")
    /\ \E caller \in Accounts, tier_id \in 1..MaxTiers :
          LET r == SM_delete_tier_call(caller, tier_id)
          IN  /\ sm' = r.sm
              /\ ret' = [op |-> "delete_tier", res |-> r.res]
    /\ UNCHANGED <<pm, pm_log, pmc, pmc_log, cw, da, tb, vt, vc, vc_log, dtm, da_log, dop, ro, tb_log, dtm_log>>

\* ---------------------------------------------------------------- DOP
\* DecentralizedOpinionPolling after new() by a1.
DOP_Init ==
    /\ deployed = "DOP"
    /\ Idle
    /\ pm = PM_Storage0 /\ pmc = PMC_Storage0 /\ cw = CW_Data0 /\ da = DA_Storage0
    /\ ret = [op |-> "new", res |-> "Ok"]

DOP_create_poll ==
    /\ Call("DOP")
    /\ dop.poll_count + 1 \in PollIds
    /\ \E caller \in Accounts, options \in OutcomeLists,
          start_timestamp \in Deadlines, end_timestamp \in Deadlines,
          voting_power_strategy \in
              {[kind |-> "OnePersonOneVote", token_address |-> None],
               [kind |-> "BalanceWeighted", token_address |-> None],
               [kind |-> "TokenWeighted", token_address |-> ZeroAccount],
               [kind |-> "TokenWeighted", token_address |-> "a2"]} :
          LET r == DOP_create_poll_call(caller, options, start_timestamp,
                                        end_timestamp, voting_power_strategy)
          IN  /\ dop' = r.dop
              /\ ret' = [op |-> "create_poll", res |-> r.res]
    /\ UNCHANGED <<pm, pm_log, pmc, pmc_log, cw, da, tb, vt, vc, vc_log, dtm,
                   sm, da_log, ro, tb_log, dtm_log>>

DOP_vote ==
    /\ Call("DOP")
    /\ \E caller \in Accounts, poll_id \in PollIds,
          option_index \in OracleAnswers,
          balance \in {0, 1, U32_MAX} :
          LET r == DOP_vote_call(caller, poll_id, option_index, balance)
          IN  /\ dop' = r.dop
              /\ ret' = [op |-> "vote", res |-> r.res]
    /\ UNCHANGED <<pm, pm_log, pmc, pmc_log, cw, da, tb, vt, vc, vc_log, dtm,
                   sm, da_log, ro, tb_log, dtm_log>>

DOP_end_poll ==
    /\ Call("DOP")
    /\ \E caller \in Accounts, poll_id \in PollIds :
          LET r == DOP_end_poll_call(caller, poll_id)
          IN  /\ dop' = r.dop
              /\ ret' = [op |-> "end_poll", res |-> r.res]
    /\ UNCHANGED <<pm, pm_log, pmc, pmc_log, cw, da, tb, vt, vc, vc_log, dtm,
                   sm, da_log, ro, tb_log, dtm_log>>

\* ---------------------------------------------------------------- RO
\* ReputationOracle after new(1, a1, [a2]).
RO_Init ==
    /\ deployed = "RO"
    /\ Idle
    /\ pm = PM_Storage0 /\ pmc = PMC_Storage0 /\ cw = CW_Data0 /\ da = DA_Storage0
    /\ ret = [op |-> "new", res |-> "Ok"]

RO_rate ==
    /\ Call("RO")
    /\ \E caller \in Voters, subject \in Accounts, rating \in {0, 1, 10, 11} :
          LET r == RO_rate_call(caller, subject, rating)
          IN  /\ ro' = r.ro
              /\ ret' = [op |-> "rate", res |-> r.res]
    /\ UNCHANGED <<pm, pm_log, pmc, pmc_log, cw, da, tb, vt, vc, vc_log, dtm,
                   sm, da_log, dop, tb_log, dtm_log>>

\* add_rater_to_whitelist: only the admin; the rater is pushed unless the
\* whitelist holds it already.
RO_add_rater_to_whitelist ==
    /\ Call("RO")
    /\ \E caller \in Voters, rater \in Voters :
          /\ ro' = IF caller = ro.admin
                      /\ rater \notin SeqSet(ro.raters_whitelist)
                      THEN [ro EXCEPT !.raters_whitelist = Append(@, rater)]
                      ELSE ro
          /\ ret' = [op |-> "add_rater_to_whitelist",
                     res |-> IF caller # ro.admin THEN "CallerNotAuthorized"
                             ELSE "Ok"]
    /\ UNCHANGED <<pm, pm_log, pmc, pmc_log, cw, da, tb, vt, vc, vc_log, dtm,
                   sm, da_log, dop, tb_log, dtm_log>>

\* remove_rater_from_whitelist: only the admin; the first occurrence of the
\* rater is removed.
RO_remove_rater_from_whitelist ==
    /\ Call("RO")
    /\ \E caller \in Voters, rater \in Voters :
          LET w == ro.raters_whitelist
              index == CHOOSE i \in 1..Len(w) :
                          w[i] = rater /\ \A j \in 1..(i - 1) : w[j] # rater
          IN  /\ ro' = IF caller = ro.admin /\ rater \in SeqSet(w)
                          THEN [ro EXCEPT !.raters_whitelist =
                                   SubSeq(w, 1, index - 1)
                                      \o SubSeq(w, index + 1, Len(w))]
                          ELSE ro
              /\ ret' = [op |-> "remove_rater_from_whitelist",
                         res |-> IF caller # ro.admin
                                    THEN "CallerNotAuthorized" ELSE "Ok"]
    /\ UNCHANGED <<pm, pm_log, pmc, pmc_log, cw, da, tb, vt, vc, vc_log, dtm,
                   sm, da_log, dop, tb_log, dtm_log>>

\* ------------------------------------------------------- specifications
PM_Next ==
    \/ PM_init
    \/ PM_deposit
    \/ PM_withdraw
    \/ PM_resolve
    \/ PM_claim
    \/ PM_add_liquidity
    \/ PM_remove_liquidity
    \/ Tick

PMC_Next ==
    \/ PMC_create_poll
    \/ PMC_vote
    \/ PMC_resolve_poll
    \/ Tick

CW_Next ==
    \/ CW_CreateTopic
    \/ CW_StakeAndVote
    \/ CW_FinalizeTopic
    \/ Tick

DA_Next ==
    \/ DA_place_bid
    \/ DA_end_auction
    \/ DA_claim_item
    \/ Tick

TB_Next ==
    \/ TB_create_task
    \/ TB_contribute
    \/ TB_assign_task
    \/ TB_complete_task

VT_Next ==
    \/ VT_create_proposal
    \/ VT_vote
    \/ VT_close_proposal
    \/ Tick

VC_Next ==
    \/ VC_start_voting
    \/ VC_cast_vote
    \/ VC_end_voting
    \/ Tick

DTM_Next ==
    \/ DTM_create_task
    \/ DTM_assign_task
    \/ DTM_update_task_status
    \/ DTM_complete_task
    \/ DTM_cancel_task

SM_Next ==
    \/ SM_add_tier
    \/ SM_delete_tier

DOP_Next ==
    \/ DOP_create_poll
    \/ DOP_vote
    \/ DOP_end_poll
    \/ Tick

RO_Next ==
    \/ RO_rate
    \/ RO_add_rater_to_whitelist
    \/ RO_remove_rater_from_whitelist

\* The two task-bounty contracts.
Task_Init == TB_Init \/ DTM_Init

Task_Next ==
    \/ TB_create_task
    \/ TB_contribute
    \/ TB_assign_task
    \/ TB_complete_task
    \/ DTM_create_task
    \/ DTM_assign_task
    \/ DTM_update_task_status
    \/ DTM_complete_task
    \/ DTM_cancel_task

\* The two contracts that keep an amount per (participant, option):
\* PredictionMarket stakes and TaskBoard contributions.
Stake_Init == PM_Init \/ TB_Init

Stake_Next ==
    \/ PM_init
    \/ PM_deposit
    \/ PM_withdraw
    \/ PM_resolve
    \/ PM_claim
    \/ PM_add_liquidity
    \/ PM_remove_liquidity
    \/ Tick
    \/ TB_create_task
    \/ TB_contribute
    \/ TB_assign_task
    \/ TB_complete_task

Init == PM_Init \/ PMC_Init \/ CW_Init \/ DA_Init

Next ==
    \/ PM_init
    \/ PM_deposit
    \/ PM_withdraw
    \/ PM_resolve
    \/ PM_claim
    \/ PM_add_liquidity
    \/ PM_remove_liquidity
    \/ PMC_create_poll
    \/ PMC_vote
    \/ PMC_resolve_poll
    \/ CW_CreateTopic
    \/ CW_StakeAndVote
    \/ CW_FinalizeTopic
    \/ DA_place_bid
    \/ DA_end_auction
    \/ DA_claim_item
    \/ Tick

\* One contract each.
SpecPM == PM_Init /\ [][PM_Next]_vars
SpecPMFunded == PM_InitFunded /\ [][PM_Next]_vars
SpecPMC == PMC_Init /\ [][PMC_Next]_vars
SpecCW == CW_Init /\ [][CW_Next]_vars
SpecDA == DA_Init /\ [][DA_Next]_vars
SpecTB == TB_Init /\ [][TB_Next]_vars
SpecVT == VT_Init /\ [][VT_Next]_vars
SpecVC == VC_Init /\ [][VC_Next]_vars
SpecDTM == DTM_Init /\ [][DTM_Next]_vars
SpecTask == Task_Init /\ [][Task_Next]_vars
SpecStake == Stake_Init /\ [][Stake_Next]_vars
SpecSM == SM_Init /\ [][SM_Next]_vars
SpecDOP == DOP_Init /\ [][DOP_Next]_vars
SpecRO == RO_Init /\ [][RO_Next]_vars

\* Any of the four staking contracts PM, PMC, CW and DA.
Spec == Init /\ [][Next]_vars

\* ========================================================================
\* Properties
\* ========================================================================

\* The stakes recorded on an outcome, over all accounts, and over all
\* outcomes.
StakeSum(outcome) == SumOver(Accounts, [a \in Accounts |-> get_stake(a, outcome)])

TotalStaked == SumOver(Outcomes, [o \in Outcomes |-> StakeSum(o)])

\* What the pool of an outcome holds beyond the stakes recorded on it.
PoolSurplus(outcome) == get_outcome_pool(outcome) - StakeSum(outcome)

NoClaimYet == \A k \in AccountOutcome : pm_log.claims[k] = 0

\* The votes of a poll, their stake, and the stake on one option.
PollStake(poll_id) ==
    SumOver(VoteKeys(pmc.votes, poll_id),
            [k \in VoteKeys(pmc.votes, poll_id) |-> pmc.votes[k].amount])

OptionVotes(poll_id, option) ==
    {k \in VoteKeys(pmc.votes, poll_id) : pmc.votes[k].option = option}

OptionStake(poll_id, option) ==
    SumOver(OptionVotes(poll_id, option),
            [k \in OptionVotes(poll_id, option) |-> pmc.votes[k].amount])

C2_ClaimAtMostOnce ==
    \A k \in AccountOutcome : pm_log.claims[k] <= 1

\* ---------------------------------------------------------------- C3
\* C3: the amounts paid out to participants never exceed, in total, the
\* amounts staked (PredictionMarket.claim over a market that was set up
\* once, PredictiveMarketContract.distribute_rewards over each poll).
C3_PayoutsWithinStakes ==
    /\ ~pm_log.reinit => pm_log.paid <= pm_log.staked
    /\ \A p \in PollIds : pmc_log.paid[p] <= pmc_log.staked[p]

\* ---------------------------------------------------------------- C4
\* C4: a resolved or finalised instance never returns to the open state:
\* PredictionMarket's resolved flag and CrowdWisdom's consensus_reached,
\* once true, stay true.
C4_ResolvedIsFinal ==
    [][ /\ pm.resolved => pm'.resolved
        /\ cw.consensus_reached => cw'.consensus_reached
      ]_vars

\* ---------------------------------------------------------------- C5
\* C5: the winning option is set exactly once: after a successful resolve
\* no operation changes the stored winning option, and a second resolve is
\* rejected (PredictionMarket.resolve, PredictiveMarketContract.resolve_poll).
C5_WinnerSetOnce ==
    [][ /\ pm.resolved_outcome # None
            => pm'.resolved_outcome = pm.resolved_outcome
        /\ pm.resolved
            => \A by \in Accounts, o \in Outcomes :
                  PM_resolve_call(by, o).res # "Ok"
        /\ \A p \in DOMAIN pmc.polls :
              pmc.polls[p].resolved
                  => /\ pmc'.polls[p] = pmc.polls[p]
                     /\ \A caller \in Accounts, answer \in OracleAnswers :
                           PMC_resolve_poll_call(caller, p, answer, TRUE).res # "Ok"
      ]_vars

\* ---------------------------------------------------------------- C6
\* C6: a stake-recording call fails and records nothing when the instance
\* is resolved or finalised, or when the time is at or past its deadline
\* (PredictionMarket.deposit, PredictiveMarketContract.vote, CrowdWisdom
\* StakeAndVote).
C6_ClosedRejectsStake ==
    /\ (pm.resolved \/ now >= pm.resolution_timestamp)
          => \A from \in Accounts, o \in Outcomes, amount \in StakeAmounts :
                /\ PM_deposit_call(from, o, amount).res # "Ok"
                /\ PM_deposit_call(from, o, amount).pm.stake = pm.stake
    /\ \A p \in DOMAIN pmc.polls :
          (pmc.polls[p].resolved \/ now >= pmc.polls[p].deadline)
              => \A voter \in Voters, option \in VoteOptions, amount \in VoteAmounts :
                    /\ PMC_vote_call(voter, p, option, amount, TRUE).res # "Ok"
                    /\ PMC_vote_call(voter, p, option, amount, TRUE).pmc.votes = pmc.votes
    /\ cw.consensus_reached
          => \A staker \in Accounts, agree \in BOOLEAN, stake \in Lamports :
                /\ CW_StakeAndVote_call(staker, agree, stake, TRUE).res # "Ok"
                /\ CW_StakeAndVote_call(staker, agree, stake, TRUE).cw = cw

\* ---------------------------------------------------------------- C7
\* C7 as stated: every resolve call made before the deadline fails with the
\* deadline-not-reached error and leaves the instance unresolved
\* (PredictionMarket.resolve: MarketNotMature; DecentralizedAuction
\* .end_auction leaves auction_finished false).
C7_EarlyResolveNotMature ==
    /\ now < pm.resolution_timestamp
          => \A by \in Accounts, o \in Outcomes :
                /\ PM_resolve_call(by, o).res = "MarketNotMature"
                /\ ~PM_resolve_call(by, o).pm.resolved
    /\ now < da.end_timestamp
          => \A caller \in Accounts :
                ~DA_end_auction_call(caller).da.auction_finished

\* C7, amended: before the deadline no resolve call succeeds and the
\* instance stays as it was, unresolved.  PredictionMarket.resolve returns
\* MarketNotMature to the admin and Unauthorized to any other caller (the
\* caller is checked first); DecentralizedAuction.end_auction returns
\* AuctionEnded and leaves auction_finished false.
C7_EarlyResolveRejected ==
    /\ now < pm.resolution_timestamp
          => /\ ~pm.resolved
             /\ \A by \in Accounts, o \in Outcomes :
                   PM_resolve_call(by, o) =
                       [pm |-> pm,
                        res |-> IF by = pm.admin THEN "MarketNotMature"
                                                 ELSE "Unauthorized"]
    /\ now < da.end_timestamp
          => /\ ~da.auction_finished
             /\ \A caller \in Accounts :
                   DA_end_auction_call(caller) = [da |-> da, res |-> "AuctionEnded"]

\* The admin has called resolve before the deadline, on a market that holds
\* a stake, and was turned away.
C7_Witness ==
    /\ deployed = "PM"
    /\ ret = [op |-> "resolve", res |-> "MarketNotMature"]
    /\ now < pm.resolution_timestamp
    /\ ~pm.resolved
    /\ TotalStaked > 0

\* ---------------------------------------------------------------- C8
\* C8 as stated: a resolve or finalise call by anyone but the instance's
\* authority fails with Unauthorized and leaves the state unchanged
\* (PredictionMarket.resolve: admin; CrowdWisdom FinalizeTopic: creator;
\* DecentralizedAuction.end_auction: owner).
C8_OnlyAuthorityResolves ==
    /\ \A by \in Accounts \ {pm.admin}, o \in Outcomes :
          PM_resolve_call(by, o) = [pm |-> pm, res |-> "Unauthorized"]
    /\ \A staker \in Accounts \ {cw.creator} :
          CW_FinalizeTopic_call(staker) = [cw |-> cw, res |-> "Unauthorized"]
    /\ \A caller \in Accounts \ {da.owner} :
          DA_end_auction_call(caller) = [da |-> da, res |-> "Unauthorized"]

\* C8, amended: only PredictionMarket.resolve checks its caller: called by
\* anyone but the admin it fails with Unauthorized and leaves the state
\* unchanged.  CrowdWisdom FinalizeTopic and DecentralizedAuction
\* .end_auction check no caller: any account finalises a topic that is not
\* finalised, and any account ends an auction whose end time has come.
C8_OnlyAdminResolves ==
    /\ \A by \in Accounts \ {pm.admin}, o \in Outcomes :
          PM_resolve_call(by, o) = [pm |-> pm, res |-> "Unauthorized"]
    /\ ~cw.consensus_reached
          => \A staker \in Accounts :
                /\ CW_FinalizeTopic_call(staker).res = "Ok"
                /\ CW_FinalizeTopic_call(staker).cw.consensus_reached
    /\ (now >= da.end_timestamp /\ ~da.auction_finished)
          => \A caller \in Accounts :
                /\ DA_end_auction_call(caller).res = "Ok"
                /\ DA_end_auction_call(caller).da.auction_finished

\* Someone who is not the admin has called resolve on a mature, unresolved
\* market and was turned away.
C8_Witness ==
    /\ deployed = "PM"
    /\ ret = [op |-> "resolve", res |-> "Unauthorized"]
    /\ now >= pm.resolution_timestamp
    /\ ~pm.resolved
    /\ TotalStaked > 0

\* ---------------------------------------------------------------- C9
\* C9: a winner's payout is floor(participant_amount * grand_total /
\* winning_pool), grand_total the stake on all options and winning_pool the
\* stake on the winning option (PredictionMarket.claim,
\* PredictiveMarketContract.distribute_rewards).
C9_ProportionalPayout ==
    /\ \A to \in Accounts, o \in Outcomes :
          PM_claim_call(to, o).res = "Ok"
              => PM_claim_call(to, o).winnings =
                     (get_stake(to, o) * TotalStaked) \div StakeSum(o)
    /\ \A p \in DOMAIN pmc.polls, answer \in OracleAnswers :
          LET r == PMC_resolve_poll_call(pmc.admin, p, answer, TRUE)
          IN  (r.res = "Ok" /\ OptionVotes(p, answer) # {})
                  => \A k \in OptionVotes(p, answer) :
                        r.transfers[k[2]] =
                            (pmc.votes[k].amount * PollStake(p))
                                \div OptionStake(p, answer)

C11_OracleAnswerValidated ==
    \A p \in DOMAIN pmc.polls, answer \in OracleAnswers \ VoteOptions :
        LET r == PMC_resolve_poll_call(pmc.admin, p, answer, TRUE)
        IN  /\ r.res # "Ok"
            /\ r.pmc = pmc
            /\ \A v \in Voters : r.transfers[v] = 0

\* ---------------------------------------------------------------- C12
\* C12: an operation that returns an error leaves the contract's state as it
\* was before the call: PredictionMarket.remove_liquidity (whatever the
\* amount), TaskBoard.complete_task (whether or not the transfer succeeds)
\* and Voting.vote.
C12_ErrorLeavesStateUnchanged ==
    /\ \A to \in Accounts, amount \in 1..MaxLiquidity :
          LET r == PM_remove_liquidity_call(to, amount)
          IN  r.res # "Ok" => r.pm = pm
    /\ \A caller \in Accounts, task_id \in TaskIds, transfer_ok \in BOOLEAN :
          LET r == TB_complete_task_call(caller, task_id, transfer_ok)
          IN  r.res # "Ok" => r.tb = tb
    /\ \A caller \in Accounts, proposal_name \in ProposalNames,
          option_index \in OracleAnswers :
          LET r == VT_vote_call(caller, proposal_name, option_index)
          IN  r.res # "Ok" => r.vt = vt

\* ---------------------------------------------------------------- C13
\* C13: whenever the product participant_amount * total of the proportional
\* payout cannot be represented in i128, the computation reports an
\* arithmetic-overflow error: PredictionMarket.claim, with or without overflow
\* checks in the build, returns Overflow and pays nothing, and
\* PredictiveMarketContract.resolve_poll does not abort in distribute_rewards.
C13_OverflowReported ==
    /\ \A to \in Accounts, o \in Outcomes :
          (/\ pm.resolved
           /\ o = pm.resolved_outcome
           /\ get_stake(to, o) # 0
           /\ ~InI128(get_stake(to, o) * pm.total_liquidity))
              => /\ PM_claim_call(to, o).res = "Overflow"
                 /\ PM_claim_wrapping_call(to, o).res = "Overflow"
                 /\ PM_claim_call(to, o).winnings = 0
                 /\ PM_claim_wrapping_call(to, o).winnings = 0
    /\ \A p \in DOMAIN pmc.polls, w \in VoteOptions :
          ~distribute_rewards(pmc.votes, p, w).panic

\* ---------------------------------------------------------------- C14
\* C14: a stake-recording call with an amount <= 0 is rejected with a
\* zero-amount error and changes no stake and no pool total:
\* PredictionMarket.deposit, PredictiveMarketContract.vote and CrowdWisdom's
\* StakeAndVote (whose u64 stake can only be 0).
C14_NonPositiveAmountRejected ==
    /\ \A from \in Accounts, outcome \in SeqSet(pm.outcomes), amount \in {-1, 0} :
          LET r == PM_deposit_call(from, outcome, amount)
          IN  r.res \in {"ZeroAmount", "InvalidAmount"} /\ r.pm = pm
    /\ \A voter \in Voters, poll_id \in DOMAIN pmc.polls, option \in VoteOptions,
          amount \in {-1, 0} :
          LET r == PMC_vote_call(voter, poll_id, option, amount, TRUE)
          IN  r.res = "ZeroAmount" /\ r.pmc = pmc
    /\ \A staker \in Accounts, agree \in BOOLEAN, transfer_ok \in BOOLEAN :
          LET r == CW_StakeAndVote_call(staker, agree, 0, transfer_ok)
          IN  r.res = "InvalidArgument" /\ r.cw = cw

\* ---------------------------------------------------------------- C15
\* C15: a stake-recording call that names an option which is not among the
\* declared options is rejected with an invalid-option error and records no
\* stake: PredictiveMarketContract.vote with an option outside VoteOptions and
\* PredictionMarket.deposit with an outcome outside the market's outcomes.
C15_UndeclaredOptionRejected ==
    /\ \A voter \in Voters, poll_id \in DOMAIN pmc.polls,
          option \in OracleAnswers \ VoteOptions, amount \in VoteAmounts :
          LET r == PMC_vote_call(voter, poll_id, option, amount, TRUE)
          IN  r.res # "Ok" /\ r.pmc = pmc
    /\ \A from \in Accounts, outcome \in Outcomes \ SeqSet(pm.outcomes),
          amount \in StakeAmounts :
          LET r == PM_deposit_call(from, outcome, amount)
          IN  r.res = "InvalidOutcome" /\ r.pm = pm

\* ---------------------------------------------------------------- C16
\* C16: PredictionMarket.claim(to, outcome) succeeds only when the market is
\* resolved, outcome is the resolved outcome and to holds a non-zero stake on
\* it; for a participant without stake on the resolved outcome every claim
\* returns an error, pays nothing and leaves the market as it is.
C16_ClaimOnlyForWinners ==
    \A to \in Accounts, o \in Outcomes :
        /\ PM_claim_call(to, o).res = "Ok"
              => pm.resolved /\ o = pm.resolved_outcome /\ get_stake(to, o) # 0
        /\ PM_claim_wrapping_call(to, o).res = "Ok"
              => pm.resolved /\ o = pm.resolved_outcome /\ get_stake(to, o) # 0
        /\ (pm.resolved /\ get_stake(to, pm.resolved_outcome) = 0)
              => /\ PM_claim_call(to, o).res \in {"NotWinningOutcome", "NoStake"}
                 /\ PM_claim_call(to, o).winnings = 0
                 /\ PM_claim_call(to, o).pm = pm
                 /\ PM_claim_wrapping_call(to, o) = PM_claim_call(to, o)

\* A participant whose only stake is on a losing outcome of a resolved market
\* has called claim and got an error.
C16_Witness ==
    /\ deployed = "PM"
    /\ pm.resolved
    /\ ret.op = "claim" /\ ret.res \in {"NotWinningOutcome", "NoStake"}
    /\ \E to \in Accounts, o \in SeqSet(pm.outcomes) \ {pm.resolved_outcome} :
          /\ get_stake(to, o) > 0
          /\ get_stake(to, pm.resolved_outcome) = 0
    /\ StakeSum(pm.resolved_outcome) > 0

\* ---------------------------------------------------------------- C17
\* The largest total of accepted votes among the declared options, and the
\* first declared option that has it.
LargestTotal ==
    CHOOSE t \in 0..MaxCalls :
        /\ \E i \in DOMAIN vc_log.options : vc_log.totals[vc_log.options[i]] = t
        /\ \A i \in DOMAIN vc_log.options : vc_log.totals[vc_log.options[i]] <= t

FirstWithLargestTotal ==
    LET first == CHOOSE i \in DOMAIN vc_log.options :
                    /\ vc_log.totals[vc_log.options[i]] = LargestTotal
                    /\ \A j \in 1..(i - 1) :
                          vc_log.totals[vc_log.options[j]] # LargestTotal
    IN  vc_log.options[first]

\* C17: end_voting on a voting in progress returns the option with the
\* largest total among the options declared at start_voting, and among
\* several options with the largest total the one declared first.
C17_LargestTotalFirstDeclaredWins ==
    vc.voting_in_progress
        => /\ VC_end_voting_call(TRUE).res = "Ok"
           /\ VC_end_voting_call(TRUE).winning_option = FirstWithLargestTotal

\* ---------------------------------------------------------------- C18
\* C18: cancel_task on a task that is already Completed or already Cancelled
\* fails with an error and changes nothing, whoever calls it.
C18_CancelAfterFinalRejected ==
    \A caller \in Accounts, task_id \in DOMAIN dtm.tasks :
        dtm.tasks[task_id].status \in {"Completed", "Cancelled"}
            => /\ DTM_cancel_task_call(caller, task_id).res # "Ok"
               /\ DTM_cancel_task_call(caller, task_id).dtm = dtm

\* ---------------------------------------------------------------- C19
\* The place of a status in Open -> InProgress -> Completed / Cancelled.
StatusRank(status) ==
    CASE status = "Open" -> 0
      [] status = "InProgress" -> 1
      [] status \in {"Completed", "Cancelled"} -> 2

\* C19: in both task contracts no call moves a task's status backwards, and
\* no call changes the status of a task that is Completed or Cancelled.
C19_StatusOnlyForward ==
    [][/\ \A task_id \in DOMAIN dtm.tasks :
             LET old == dtm.tasks[task_id].status
                 new == dtm'.tasks[task_id].status
             IN  /\ StatusRank(new) >= StatusRank(old)
                 /\ StatusRank(old) = 2 => new = old
       /\ \A task_id \in DOMAIN tb.tasks :
             LET old == tb.tasks[task_id].status
                 new == tb'.tasks[task_id].status
             IN  /\ StatusRank(new) >= StatusRank(old)
                 /\ StatusRank(old) = 2 => new = old]_vars

\* ---------------------------------------------------------------- C20
\* C20: a participant who holds a stake on one outcome of the market cannot
\* record a stake on a different outcome: such a deposit is rejected and
\* leaves the market, the earlier stake included, unchanged.
C20_NoStakeOnSecondOption ==
    \A from \in Accounts, held \in SeqSet(pm.outcomes),
       outcome \in SeqSet(pm.outcomes), amount \in StakeAmounts :
        (outcome # held /\ get_stake(from, held) > 0)
            => /\ PM_deposit_call(from, outcome, amount).res # "Ok"
               /\ PM_deposit_call(from, outcome, amount).pm = pm

\* ---------------------------------------------------------------- C21
\* C21: a successful stake adds to what the participant already holds on
\* the option: after a successful PredictionMarket.deposit the stake of
\* (from, outcome) is the previous stake plus amount, and after a successful
\* TaskBoard.contribute the caller's contribution to the task is the previous
\* contribution plus the value sent; no other stake or contribution changes.
C21_StakeAccumulates ==
    /\ \A from \in Accounts, outcome \in Outcomes, amount \in StakeAmounts :
          LET r == PM_deposit_call(from, outcome, amount)
          IN  r.res = "Ok"
                 => \A k \in AccountOutcome :
                       r.pm.stake[k] = IF k = <<from, outcome>>
                                          THEN pm.stake[k] + amount
                                          ELSE pm.stake[k]
    /\ \A caller \in Accounts, task_id \in TaskIds,
          transferred_value \in Contributions :
          LET r == TB_contribute_call(caller, task_id, transferred_value)
          IN  r.res = "Ok"
                 => \A a \in Accounts :
                       r.tb.tasks[task_id].contributions[a] =
                           IF a = caller
                               THEN tb.tasks[task_id].contributions[a]
                                        + transferred_value
                               ELSE tb.tasks[task_id].contributions[a]

\* Someone has successfully staked a second time on the same option: a stake
\* built from two deposits, or a contribution built from two payments.
C21_Witness ==
    \/ /\ deployed = "PM"
       /\ ret = [op |-> "deposit", res |-> "Ok"]
       /\ pm_log.staked >= 2
       /\ \E k \in AccountOutcome : pm.stake[k] = pm_log.staked
    \/ /\ deployed = "TB"
       /\ ret = [op |-> "contribute", res |-> "Ok"]
       /\ \E task_id \in DOMAIN tb.tasks, a \in Accounts :
             tb.tasks[task_id].contributions[a] >= 2


\* ---------------------------------------------------------------- C22
\* C22: resolving poll X in PredictiveMarketContract touches only poll X's
\* stakes.  For every successful resolve_poll(X): every vote of every other
\* poll is still stored, unchanged; no vote of X is left; a transfer goes only
\* to an account that had a vote in X; and the transfers add up to no more
\* than the stake recorded for X.
C22_ResolveTouchesOnlyItsPoll ==
    \A caller \in Accounts, poll_id \in PollIds, answer \in OracleAnswers,
       token_ok \in BOOLEAN :
       LET r == PMC_resolve_poll_call(caller, poll_id, answer, token_ok)
       IN  r.res = "Ok"
              => /\ \A k \in DOMAIN pmc.votes :
                       k[1] # poll_id
                          => /\ k \in DOMAIN r.pmc.votes
                             /\ r.pmc.votes[k] = pmc.votes[k]
                 /\ \A k \in DOMAIN r.pmc.votes :
                       k \in DOMAIN pmc.votes /\ k[1] # poll_id
                 /\ \A v \in Voters :
                       r.transfers[v] # 0 => <<poll_id, v>> \in DOMAIN pmc.votes
                 /\ SumOver(Voters, r.transfers) <= PollStake(poll_id)

\* A poll was resolved and paid out while another poll still holds votes.
C22_Witness ==
    /\ deployed = "PMC"
    /\ ret.op = "resolve_poll" /\ ret.res = "Ok"
    /\ \E p \in PollIds, q \in PollIds :
          /\ p # q
          /\ p \in DOMAIN pmc.polls /\ pmc.polls[p].resolved
          /\ pmc_log.paid[p] > 0
          /\ VoteKeys(pmc.votes, p) = {}
          /\ VoteKeys(pmc.votes, q) # {}


\* ---------------------------------------------------------------- C23
\* C23 as stated: no rejected call panics.  In DecentralizedAuction every
\* place_bid that is not accepted, the one whose refund transfer to the
\* outbid bidder fails included, returns one of the contract's Error values.
C23_RejectedBidReturnsTypedError ==
    deployed = "DA"
       => \A caller \in Accounts, transferred_value \in BidAmounts,
             transfer_ok \in BOOLEAN :
             DA_place_bid_call(caller, transferred_value, transfer_ok).res
                 \in {"Ok", "PayableError", "AuctionEnded", "BidTooLow"}


\* ---------------------------------------------------------------- C24
\* C24 as stated: in SubscriptionManager, after any sequence of add_tier and
\* delete_tier calls, a successful add_tier stores the new tier under an id
\* no existing tier has, and leaves the record of every existing tier as it
\* was.
C24_NewTierIdIsFresh ==
    \A name \in {"basic", "pro"}, price \in {1, 2} :
       LET r == SM_add_tier_call(sm.admin, name, price)
       IN  r.res = "Ok"
              => /\ DOMAIN r.sm.tiers \ DOMAIN sm.tiers # {}
                 /\ \A id \in DOMAIN sm.tiers : r.sm.tiers[id] = sm.tiers[id]


\* ---------------------------------------------------------------- C25
\* C25: in DecentralizedAuction the owner is paid highest_bid only by a
\* claim_item of the current highest bidder on a finished auction, and at
\* most once: over a whole behaviour there is at most one transfer to the
\* owner, of highest_bid, and a claim_item the highest bidder repeats after
\* the settlement returns SettlementAlreadyDone and transfers nothing.
C25_OwnerPaidOnceByWinner ==
    /\ Len(da_log.to_owner) <= 1
    /\ da_log.to_owner # <<>>
          => /\ da.auction_finished /\ da.settlement_done
             /\ da_log.to_owner = <<da.highest_bid>>
    /\ \A caller \in Accounts, transfer_ok \in BOOLEAN :
          LET r == DA_claim_item_call(caller, transfer_ok)
          IN  /\ r.to_owner # <<>>
                    => /\ caller = da.highest_bidder
                       /\ da.auction_finished
                       /\ r.to_owner = <<da.highest_bid>>
              /\ da.settlement_done /\ caller = da.highest_bidder
                    => r.res = "SettlementAlreadyDone" /\ r.to_owner = <<>>

\* The highest bidder claimed, the owner was paid, and the claim was repeated.
C25_Witness ==
    /\ deployed = "DA"
    /\ ret = [op |-> "claim_item", res |-> "SettlementAlreadyDone"]
    /\ Len(da_log.to_owner) = 1
    /\ da_log.to_owner[1] > 0


\* ---------------------------------------------------------------- C26
\* C26 as stated: in DecentralizedAuction, once the block timestamp has
\* reached end_timestamp no place_bid is accepted, whether or not
\* end_auction has been called.
C26_NoBidAfterEnd ==
    deployed = "DA" /\ now >= da.end_timestamp
       => \A caller \in Accounts, transferred_value \in BidAmounts,
             transfer_ok \in BOOLEAN :
             DA_place_bid_call(caller, transferred_value, transfer_ok).res # "Ok"


C28_LowBidIsBidTooLow ==
    \A caller \in Accounts, transferred_value \in BidAmounts,
       transfer_ok \in BOOLEAN :
       LET r == DA_place_bid_call(caller, transferred_value, transfer_ok)
       IN  /\ r.res = "Ok" => r.da.highest_bid > da.highest_bid
           /\ transferred_value <= da.highest_bid
                 => /\ r.res = "BidTooLow"
                    /\ r.da.highest_bid = da.highest_bid
                    /\ r.da.highest_bidder = da.highest_bidder

\* C28, amended: every accepted place_bid raises highest_bid; every place_bid
\* with a value of at most highest_bid fails and leaves the storage
\* unchanged; it fails with BidTooLow when the value is not zero and the
\* auction is not finished, with PayableError when the value is zero, and
\* otherwise with AuctionEnded.
C28_HighestBidStrictlyIncreases ==
    \A caller \in Accounts, transferred_value \in BidAmounts,
       transfer_ok \in BOOLEAN :
       LET r == DA_place_bid_call(caller, transferred_value, transfer_ok)
       IN  /\ r.res = "Ok"
                 => /\ r.da.highest_bid > da.highest_bid
                    /\ r.da.highest_bid = transferred_value
           /\ transferred_value <= da.highest_bid
                 => /\ r.da = da
                    /\ r.refund = <<>>
                    /\ r.res = IF transferred_value = 0 THEN "PayableError"
                               ELSE IF da.auction_finished THEN "AuctionEnded"
                               ELSE "BidTooLow"

\* A bid was accepted, a higher one replaced it, and a bid that was not
\* higher was then refused with BidTooLow.
C28_Witness ==
    /\ deployed = "DA"
    /\ ret = [op |-> "place_bid", res |-> "BidTooLow"]
    /\ da.highest_bid = 2
    /\ \E a \in Accounts : da_log.refunded[a] = 1


C30_VoteCountedOncePerProposal ==
    deployed = "VT"
       => /\ \A p \in DOMAIN vt.proposals :
                SumOver(DOMAIN vt.proposals[p].votes, vt.proposals[p].votes)
                   = Cardinality({a \in Accounts :
                                     /\ <<p, a>> \in DOMAIN vt.voters
                                     /\ vt.voters[<<p, a>>]})
          /\ \A caller \in Accounts, proposal_name \in ProposalNames,
                option_index \in OracleAnswers :
                LET r == VT_vote_call(caller, proposal_name, option_index)
                    key == <<proposal_name, caller>>
                IN  /\ key \in DOMAIN vt.voters /\ vt.voters[key]
                          => r.res = "AlreadyVoted" /\ r.vt = vt
                    /\ r.res = "Ok"
                          => /\ r.vt.voters[key]
                             /\ ~(key \in DOMAIN vt.voters /\ vt.voters[key])

\* An account voted on two proposals, once on each, and then tried again.
C30_Witness ==
    /\ deployed = "VT"
    /\ ret = [op |-> "vote", res |-> "AlreadyVoted"]
    /\ \E a \in Accounts :
          \A p \in ProposalNames :
             /\ p \in DOMAIN vt.proposals
             /\ <<p, a>> \in DOMAIN vt.voters /\ vt.voters[<<p, a>>]
             /\ SumOver(DOMAIN vt.proposals[p].votes, vt.proposals[p].votes) = 1

\* ---------------------------------------------------------------- C31
\* C31: in DecentralizedOpinionPolling a poll is inactive exactly from the
\* end_poll that succeeded for it.  From then on every vote on the poll
\* fails with PollNotActive and leaves the storage unchanged, and no call
\* changes the poll's record: its results stay as they are and it does not
\* become active again.
C31_EndedPollIsFinal ==
    /\ [](\A poll_id \in DOMAIN dop.polls :
             ~dop.polls[poll_id].is_active
                => \A caller \in Accounts, option_index \in OracleAnswers,
                      balance \in {0, 1, U32_MAX} :
                      LET r == DOP_vote_call(caller, poll_id, option_index,
                                             balance)
                      IN  r.res = "PollNotActive" /\ r.dop = dop)
    /\ [][ /\ \A poll_id \in DOMAIN dop.polls :
                 ~dop.polls[poll_id].is_active
                    => /\ poll_id \in DOMAIN dop'.polls
                       /\ dop'.polls[poll_id] = dop.polls[poll_id]
           /\ \A poll_id \in DOMAIN dop'.polls :
                 ( /\ ~dop'.polls[poll_id].is_active
                   /\ poll_id \in DOMAIN dop.polls
                   /\ dop.polls[poll_id].is_active )
                    => ret' = [op |-> "end_poll", res |-> "Ok"]
           /\ \A poll_id \in DOMAIN dop'.polls :
                 poll_id \notin DOMAIN dop.polls
                    => dop'.polls[poll_id].is_active ]_vars

\* A poll with votes was ended and a later vote on it was refused.
C31_Witness ==
    /\ deployed = "DOP"
    /\ ret = [op |-> "vote", res |-> "PollNotActive"]
    /\ \E poll_id \in DOMAIN dop.polls :
          /\ ~dop.polls[poll_id].is_active
          /\ \E i \in DOMAIN dop.polls[poll_id].results :
                dop.polls[poll_id].results[i] > 0


\* ---------------------------------------------------------------- C32
\* C32 as stated: in ReputationOracle a rate by a caller that is not in the
\* raters whitelist, the admin included, returns CallerNotAuthorized and
\* stores no rating.
C32_OnlyWhitelistedRate ==
    \A caller \in Voters, subject \in Accounts, rating \in {0, 1, 10, 11} :
       LET r == RO_rate_call(caller, subject, rating)
       IN  caller \notin SeqSet(ro.raters_whitelist)
              => r.res = "CallerNotAuthorized" /\ r.ro = ro


C34_VoteAndResolveExclusive ==
    /\ [](\A poll_id \in PollIds :
             LET can_vote ==
                     \E voter \in Voters, option \in VoteOptions,
                        amount \in VoteAmounts, token_ok \in BOOLEAN :
                        PMC_vote_call(voter, poll_id, option, amount,
                                      token_ok).res = "Ok"
                 can_resolve ==
                     \E caller \in Accounts, answer \in OracleAnswers,
                        token_ok \in BOOLEAN :
                        PMC_resolve_poll_call(caller, poll_id, answer,
                                              token_ok).res = "Ok"
             IN  /\ ~(can_vote /\ can_resolve)
                 /\ poll_id \in DOMAIN pmc.polls /\ pmc.polls[poll_id].resolved
                       => /\ ~can_vote
                          /\ VoteKeys(pmc.votes, poll_id) = {}
                          /\ \A voter \in Voters, option \in VoteOptions,
                                amount \in VoteAmounts, token_ok \in BOOLEAN :
                                PMC_vote_call(voter, poll_id, option, amount,
                                              token_ok).pmc = pmc)
    /\ [][\A poll_id \in DOMAIN pmc.polls :
             pmc.polls[poll_id].resolved
                => /\ pmc'.polls[poll_id].resolved
                   /\ VoteKeys(pmc'.votes, poll_id) = {}]_vars

\* A poll with votes was resolved and paid out, and a later vote on it was
\* refused.
C34_Witness ==
    /\ deployed = "PMC"
    /\ ret.op = "vote" /\ ret.res = "PollNotActive"
    /\ \E poll_id \in DOMAIN pmc.polls :
          pmc.polls[poll_id].resolved /\ pmc_log.paid[poll_id] > 0


\* ---------------------------------------------------------------- C35
\* C35 as stated: in TaskBoard, over any sequence of calls, the amount
\* transferred to assignees for a task is never more than the contributions
\* made to the task.
C35_PaidWithinContributions ==
    \A task_id \in DOMAIN tb.tasks :
       tb_log.paid[task_id]
          <= SumOver(Accounts, tb.tasks[task_id].contributions)


\* ---------------------------------------------------------------- C36
\* C36 as stated: in DecentralizedTaskManagement, over any sequence of
\* calls, the bounty of a task is transferred to its assignee at most once.
C36_BountyPaidAtMostOnce ==
    \A task_id \in DOMAIN dtm.tasks :
       Len(SelectSeq(dtm_log.paid[task_id], LAMBDA amount : amount > 0)) <= 1

====
